---- MODULE Spec2Model ----
(***************************************************************************)
(* pickle_inspector: a static analyzer for insecure deserialization.       *)
(*                                                                         *)
(* The module models the analyzer's pipeline as state machines:            *)
(*   Spec      analyze_index / SinkVisitor over an indexed project, and    *)
(*             export_json_report on the list it returns                   *)
(*   SpecIndex index_project over a list of input paths                    *)
(*   SpecCli   main, the command-line driver                               *)
(*   SpecName  the report's project name (sanitize_filename)               *)
(*                                                                         *)
(* Python strings are TLA+ strings; the arrow U+2192 that the analyzer     *)
(* writes into flows is written "->" here.  A syntax tree is a record with *)
(* a field k naming the node class and the fields of that class.           *)
(***************************************************************************)
EXTENDS Integers, Sequences, FiniteSets, TLC

VARIABLES
    \* analyze_index and the SinkVisitor of the file being analysed
    project_index,      \* ProjectIndex: files (in insertion order), function_map
    file_pos,           \* position of analyze_index's loop in file_items
    an_pc,              \* "construct", "visit", "returned", "exported"
    pending,            \* the visitor's call stack: nodes still to visit, functions to leave
    tainted_files,      \* SinkVisitor.tainted_files
    function_contexts,  \* SinkVisitor.function_contexts
    current_function,   \* SinkVisitor.current_function
    visitor_findings,   \* SinkVisitor.findings
    findings,           \* analyze_index's findings list
    file_errors,        \* files whose analysis raised ("Error analyzing ...")
    trace_deepest,      \* deepest depth argument any trace_source call has received
    \* index_project: its arguments, its environment and its loop
    filepaths,          \* the list of input paths
    py2_mode,           \* --py2-support
    skip_errors,        \* --skip-errors
    cwd,                \* os.getcwd(), the default safe root of parse_file_to_ast
    upgrader,           \* TRUE when python3 -m lib2to3 can run in this environment
    ix_pc,              \* "loop", "returned", "exited" (sys.exit), "raised"
    ix_pos,             \* position of the loop in filepaths
    scratch,            \* the temporary directory: basename -> text
    io_log,             \* the path checks and the opens, in the order they happen
    stdout,             \* the messages printed
    ix_exit,            \* None, the status of sys.exit, or the exception raised
    \* main: the command line and the progress of the driver
    cli_args,           \* the parsed arguments (argparse's args)
    cli_pc,             \* "discover", "try", "done"
    python_files,       \* discover_python_files(target, exclude)
    phases,             \* the calls main has completed
    exit_code,          \* the status the process ends with
    \* the name of the report
    project_name,       \* None, then the sanitized project name
    json_filename,      \* None, then the name of the JSON report
    json_data           \* None, then what export_json_report has written

anVars == <<file_pos, an_pc, pending, tainted_files, function_contexts,
            current_function, visitor_findings, findings, file_errors, trace_deepest>>

ixVars == <<filepaths, py2_mode, skip_errors, cwd, upgrader, ix_pc, ix_pos, scratch,
            io_log, stdout, ix_exit>>

cliVars == <<cli_args, cli_pc, python_files, phases, exit_code>>

nameVars == <<project_name, json_filename, json_data>>

vars == <<project_index, anVars, ixVars, cliVars, nameVars>>

-----------------------------------------------------------------------------
(* Python values                                                           *)

None == [none |-> TRUE]

\* the parts of the program a specification leaves at rest
AnalyzerIdle ==
    /\ file_pos = 1
    /\ an_pc = "idle"
    /\ pending = <<>>
    /\ tainted_files = {}
    /\ function_contexts = <<>>
    /\ current_function = "None"
    /\ visitor_findings = <<>>
    /\ findings = <<>>
    /\ file_errors = {}
    /\ trace_deepest = 0

IndexerIdle ==
    /\ filepaths = <<>>
    /\ py2_mode = FALSE
    /\ skip_errors = FALSE
    /\ upgrader = TRUE
    /\ ix_pc = "idle"
    /\ ix_pos = 1
    /\ scratch = <<>>
    /\ io_log = <<>>
    /\ stdout = <<>>
    /\ ix_exit = None

DriverIdle ==
    /\ cli_args = None
    /\ cli_pc = "idle"
    /\ python_files = <<>>
    /\ phases = <<>>
    /\ exit_code = None

NameIdle ==
    /\ project_name = None
    /\ json_filename = None
    /\ json_data = None

IsNone(v) == v = None

Max(a, b) == IF a >= b THEN a ELSE b

-----------------------------------------------------------------------------
(* str methods                                                             *)

CharAt(s, i) == SubSeq(s, i, i)

\* sub in s
Contains(s, sub) ==
    \E i \in 1..(Len(s) - Len(sub) + 1) : SubSeq(s, i, i + Len(sub) - 1) = sub

\* s.startswith(p)
StartsWith(s, p) == Len(s) >= Len(p) /\ SubSeq(s, 1, Len(p)) = p

\* s.endswith(p)
EndsWith(s, p) == Len(s) >= Len(p) /\ SubSeq(s, Len(s) - Len(p) + 1, Len(s)) = p

UpperCase == <<"A", "B", "C", "D", "E", "F", "G", "H", "I", "J", "K", "L", "M",
               "N", "O", "P", "Q", "R", "S", "T", "U", "V", "W", "X", "Y", "Z">>

LowerCase == <<"a", "b", "c", "d", "e", "f", "g", "h", "i", "j", "k", "l", "m",
               "n", "o", "p", "q", "r", "s", "t", "u", "v", "w", "x", "y", "z">>

LowerChar(c) ==
    IF \E i \in 1..26 : UpperCase[i] = c
    THEN LowerCase[CHOOSE i \in 1..26 : UpperCase[i] = c]
    ELSE c

RECURSIVE Lower(_)
\* s.lower()
Lower(s) == IF Len(s) = 0 THEN "" ELSE LowerChar(CharAt(s, 1)) \o Lower(SubSeq(s, 2, Len(s)))

\* the position of the first sep in s at or after i, 0 when there is none
FindFrom(s, sep, i) ==
    LET hits == {j \in i..Len(s) : CharAt(s, j) = sep} IN
    IF hits = {} THEN 0 ELSE CHOOSE j \in hits : \A k \in hits : j <= k

RECURSIVE SplitFrom(_, _, _)
\* the parts of s from position start on
SplitFrom(s, sep, start) ==
    LET i == FindFrom(s, sep, start) IN
    IF i = 0 THEN <<SubSeq(s, start, Len(s))>>
    ELSE <<SubSeq(s, start, i - 1)>> \o SplitFrom(s, sep, i + 1)

\* s.split(sep) for a one-character sep
Split(s, sep) == SplitFrom(s, sep, 1)

RECURSIVE Join(_, _)
\* sep.join(parts)
Join(sep, parts) ==
    IF Len(parts) = 0 THEN ""
    ELSE IF Len(parts) = 1 THEN parts[1]
    ELSE parts[1] \o sep \o Join(sep, Tail(parts))

\* s.replace(a, b) for one-character a
Replace(s, a, b) == Join(b, Split(s, a))

\* s.rsplit(sep, 1) for a one-character sep: one or two parts
RSplit1(s, sep) ==
    LET parts == Split(s, sep) IN
    IF Len(parts) = 1 THEN <<s>>
    ELSE <<Join(sep, SubSeq(parts, 1, Len(parts) - 1)), parts[Len(parts)]>>

-----------------------------------------------------------------------------
(* Syntax trees (the ast module's node classes the analyzer looks at)      *)

Name(id, ln) == [k |-> "Name", id |-> id, lineno |-> ln]

Attribute(value, attr, ln) == [k |-> "Attribute", value |-> value, attr |-> attr, lineno |-> ln]

Subscript(value, slice, ln) == [k |-> "Subscript", value |-> value, slice |-> slice, lineno |-> ln]

Call(func, args, keywords, ln) ==
    [k |-> "Call", func |-> func, args |-> args, keywords |-> keywords, lineno |-> ln]

\* a string constant; s is its value
Str(s, ln) == [k |-> "Constant", isstr |-> TRUE, s |-> s, lineno |-> ln]

\* a constant that is not a string; s is str() of its value
Num(s, ln) == [k |-> "Constant", isstr |-> FALSE, s |-> s, lineno |-> ln]

BinOp(left, op, right, ln) ==
    [k |-> "BinOp", left |-> left, op |-> op, right |-> right, lineno |-> ln]

List(elts, ln) == [k |-> "List", elts |-> elts, lineno |-> ln]

keyword(arg, value) == [k |-> "keyword", arg |-> arg, value |-> value]

withitem(context_expr, optional_vars) ==
    [k |-> "withitem", context_expr |-> context_expr, optional_vars |-> optional_vars]

\* asname "" stands for asname None
alias(name, asname) == [k |-> "alias", name |-> name, asname |-> asname]

Assign(targets, value, ln) ==
    [k |-> "Assign", targets |-> targets, value |-> value, lineno |-> ln]

Expr(value, ln) == [k |-> "Expr", value |-> value, lineno |-> ln]

Return(value, ln) == [k |-> "Return", value |-> value, lineno |-> ln]

With(items, body, ln) == [k |-> "With", items |-> items, body |-> body, lineno |-> ln]

FunctionDef(name, decorator_list, body, ln) ==
    [k |-> "FunctionDef", name |-> name, decorator_list |-> decorator_list,
     body |-> body, lineno |-> ln]

Import(names, ln) == [k |-> "Import", names |-> names, lineno |-> ln]

\* module "" stands for module None (a relative import)
ImportFrom(module, names, ln) ==
    [k |-> "ImportFrom", module |-> module, names |-> names, lineno |-> ln]

Module(body) == [k |-> "Module", body |-> body]

isinstance(node, class) == ~IsNone(node) /\ node.k = class

OptNode(v) == IF IsNone(v) THEN <<>> ELSE <<v>>

\* ast.iter_child_nodes: the child nodes in the order of the class's _fields
iter_child_nodes(node) ==
    CASE node.k = "Module"      -> node.body
      [] node.k = "FunctionDef" -> node.body \o node.decorator_list
      [] node.k = "With"        -> node.items \o node.body
      [] node.k = "withitem"    -> <<node.context_expr>> \o OptNode(node.optional_vars)
      [] node.k = "Assign"      -> node.targets \o <<node.value>>
      [] node.k = "Expr"        -> <<node.value>>
      [] node.k = "Return"      -> OptNode(node.value)
      [] node.k = "Import"      -> node.names
      [] node.k = "ImportFrom"  -> node.names
      [] node.k = "Call"        -> <<node.func>> \o node.args \o node.keywords
      [] node.k = "keyword"     -> <<node.value>>
      [] node.k = "Attribute"   -> <<node.value>>
      [] node.k = "Subscript"   -> <<node.value, node.slice>>
      [] node.k = "BinOp"       -> <<node.left, node.right>>
      [] node.k = "List"        -> node.elts
      [] OTHER                  -> <<>>

RECURSIVE WalkQueue(_)
WalkQueue(todo) ==
    IF Len(todo) = 0 THEN <<>>
    ELSE <<Head(todo)>> \o WalkQueue(Tail(todo) \o iter_child_nodes(Head(todo)))

\* ast.walk: breadth first, from a deque
walk(tree) == WalkQueue(<<tree>>)

RECURSIVE PreorderStack(_)
PreorderStack(todo) ==
    IF Len(todo) = 0 THEN <<>>
    ELSE <<Head(todo)>> \o PreorderStack(iter_child_nodes(Head(todo)) \o Tail(todo))

\* the order in which NodeVisitor.generic_visit reaches the nodes
preorder(tree) == PreorderStack(<<tree>>)

RECURSIVE NodeAt(_, _)
\* the node a path of child positions leads to
NodeAt(node, path) ==
    IF Len(path) = 0 THEN node
    ELSE NodeAt(iter_child_nodes(node)[Head(path)], Tail(path))

-----------------------------------------------------------------------------
(* sources_and_sinks.py                                                    *)

SINKS ==
    {"pickle.load", "pickle.loads", "pickle.Unpickler.load", "joblib.load",
     "cloudpickle.load", "cloudpickle.loads", "dill.load", "dill.loads",
     "marshal.load", "marshal.loads", "shelve.open", "yaml.load", "torch.load",
     "torch.jit.load", "numpy.load", "pandas.read_pickle",
     "sklearn.externals.joblib.load", "keras.models.load_model"}

SOURCES ==
    {"input", "sys.argv", "os.environ.get", "os.getenv", "argparse.Namespace",
     "request.form", "request.form.get", "request.form.__getitem__", "request.form['...']",
     "request.args", "request.args.get", "request.args.__getitem__", "request.args['...']",
     "request.json", "request.json.get", "request.json.__getitem__", "request.json['...']",
     "request.values", "request.values.get", "request.data", "request.body",
     "request.files", "request.files.get", "request.files.__getitem__", "request.files['...']",
     "request.headers.get", "request.cookies.get",
     "request.POST.get", "request.POST['...']", "request.GET.get", "request.GET['...']",
     "request.FILES.get", "request.FILES['...']",
     "fastapi.Request.json", "flask.Request.get_json",
     "requests.get", "urllib.request.urlopen", "socket.recv",
     "base64.b64decode", "json.loads", "open"}

-----------------------------------------------------------------------------
(* utils.py                                                                *)

\* dict.get(key, default)
DictGet(d, key, default) == IF key \in DOMAIN d THEN d[key] ELSE default

\* d[key] = value
DictSet(d, key, value) == [x \in DOMAIN d \cup {key} |-> IF x = key THEN value ELSE d[x]]

EmptyDict == [x \in {} |-> None]

\* a source begins the name, at a component's end or not
match_source_startswith(call_name, sources) ==
    \E source \in sources : StartsWith(call_name, source)

match_source(call_name, sources) ==
    \/ call_name \in sources
    \/ LET parts == Split(call_name, ".") IN
       \E i \in 1..Len(parts) : Join(".", SubSeq(parts, 1, i)) \in sources

RECURSIVE AttributeParts(_)
\* the attrs of a chain of Attribute nodes, outermost last
AttributeParts(node) ==
    IF isinstance(node, "Attribute") THEN AttributeParts(node.value) \o <<node.attr>>
    ELSE <<>>

RECURSIVE AttributeRoot(_)
\* the node under a chain of Attribute nodes
AttributeRoot(node) ==
    IF isinstance(node, "Attribute") THEN AttributeRoot(node.value) ELSE node

extract_full_func_name(func_node, aliases) ==
    IF isinstance(func_node, "Attribute") THEN
        LET curr == AttributeRoot(func_node) IN
        IF isinstance(curr, "Name")
        THEN Join(".", <<DictGet(aliases, curr.id, curr.id)>> \o AttributeParts(func_node))
        ELSE ""
    ELSE IF isinstance(func_node, "Name") THEN DictGet(aliases, func_node.id, func_node.id)
    ELSE ""

-----------------------------------------------------------------------------
(* indexer.py: IndexingVisitor                                             *)

FunctionInfo(name, node, filename) == [name |-> name, node |-> node, filename |-> filename]

RECURSIVE BindAliases(_, _, _)
\* the loop over node.names of visit_Import (prefix "") and visit_ImportFrom (prefix "module.")
BindAliases(imports, names, prefix) ==
    IF Len(names) = 0 THEN imports
    ELSE LET a == Head(names)
             as_name == IF a.asname # "" THEN a.asname ELSE a.name
         IN BindAliases(DictSet(imports, as_name, prefix \o a.name), Tail(names), prefix)

visit_Import(file_index, node) ==
    [file_index EXCEPT !.imports = BindAliases(@, node.names, "")]

visit_ImportFrom(file_index, node) ==
    IF node.module # ""
    THEN [file_index EXCEPT !.imports = BindAliases(@, node.names, node.module \o ".")]
    ELSE file_index

IndexingVisitor_visit_FunctionDef(file_index, node) ==
    [file_index EXCEPT
        !.functions = DictSet(@, node.name, FunctionInfo(node.name, node, file_index.filename))]

RECURSIVE IndexNodes(_, _)
\* IndexingVisitor.visit over the nodes in visiting order
IndexNodes(file_index, nodes) ==
    IF Len(nodes) = 0 THEN file_index
    ELSE LET n == Head(nodes)
             next == CASE n.k = "Import"      -> visit_Import(file_index, n)
                       [] n.k = "ImportFrom"  -> visit_ImportFrom(file_index, n)
                       [] n.k = "FunctionDef" -> IndexingVisitor_visit_FunctionDef(file_index, n)
                       [] OTHER               -> file_index
         IN IndexNodes(next, Tail(nodes))

\* FileIndex(filename, tree, source) after IndexingVisitor(file_index).visit(tree)
FileIndex(filename, tree) ==
    IndexNodes([filename |-> filename, tree |-> tree,
                functions |-> EmptyDict, imports |-> EmptyDict],
               preorder(tree))

-----------------------------------------------------------------------------
(* resolver.py                                                             *)

RECURSIVE FirstFile(_, _, _)
\* the first file index of files, from position i, whose filename ends with suffix
FirstFile(files, suffix, i) ==
    IF i > Len(files) THEN 0
    ELSE IF EndsWith(files[i].filename, suffix) THEN i
    ELSE FirstFile(files, suffix, i + 1)

RECURSIVE FirstDefining(_, _, _)
\* the first file index of files, from position i, whose functions hold func
FirstDefining(files, func, i) ==
    IF i > Len(files) THEN 0
    ELSE IF func \in DOMAIN files[i].functions THEN i
    ELSE FirstDefining(files, func, i + 1)

Resolved(func_name, func_info) ==
    [raised |-> FALSE, func_name |-> func_name, func_info |-> func_info]

\* an exception leaves resolve_function_call
Raised == [raised |-> TRUE, func_name |-> "", func_info |-> None]

resolve_function_call(node, file_index, project) ==
    LET func_name == extract_full_func_name(node.func, file_index.imports)
        parts == Split(func_name, ".")
    IN
    IF func_name \in SINKS THEN Resolved(func_name, None)
    ELSE IF Len(parts) = 2 THEN
        LET module_name == DictGet(file_index.imports, parts[1], "")
            i == FirstFile(project.files, Replace(module_name, ".", "/") \o ".py", 1)
        IN
        IF module_name # "" /\ i # 0
        THEN Resolved(func_name, DictGet(project.files[i].functions, parts[2], None))
        ELSE Resolved(func_name, None)
    ELSE IF Len(parts) = 1 THEN
        IF func_name \in DOMAIN file_index.functions
        THEN Resolved(func_name, file_index.functions[func_name])
        ELSE LET full_ref == DictGet(file_index.imports, func_name, "") IN
             IF full_ref = "" THEN Resolved(func_name, None)
             \* _, func = full_ref.rsplit(".", 1) raises ValueError on a single part
             ELSE IF Len(RSplit1(full_ref, ".")) # 2 THEN Raised
             ELSE LET func == RSplit1(full_ref, ".")[2]
                      j == FirstDefining(project.files, func, 1)
                  IN IF j # 0 THEN Resolved(func_name, project.files[j].functions[func])
                     ELSE Resolved(func_name, None)
    ELSE Resolved(func_name, None)

-----------------------------------------------------------------------------
(* analyzer.py: SinkVisitor's provenance tracing                           *)

\* the value a statement binds varname to, None when it binds none
RECURSIVE BoundByItems(_, _)
BoundByItems(items, varname) ==
    IF Len(items) = 0 THEN None
    ELSE LET item == Head(items) IN
         IF /\ isinstance(item.optional_vars, "Name")
            /\ item.optional_vars.id = varname
            /\ isinstance(item.context_expr, "Call")
         THEN item.context_expr
         ELSE BoundByItems(Tail(items), varname)

BoundBy(stmt, varname) ==
    IF isinstance(stmt, "Assign") THEN
        IF \E i \in 1..Len(stmt.targets) :
              isinstance(stmt.targets[i], "Name") /\ stmt.targets[i].id = varname
        THEN stmt.value
        ELSE None
    ELSE IF isinstance(stmt, "With") THEN BoundByItems(stmt.items, varname)
    ELSE None

RECURSIVE FirstBinding(_, _)
FirstBinding(nodes, varname) ==
    IF Len(nodes) = 0 THEN None
    ELSE IF ~IsNone(BoundBy(Head(nodes), varname)) THEN BoundBy(Head(nodes), varname)
    ELSE FirstBinding(Tail(nodes), varname)

\* SinkVisitor.find_assignment: the first binding ast.walk comes to
find_assignment(tree, varname) == FirstBinding(walk(tree), varname)

\* is node the expression request.files[...]
IsRequestFiles(node) ==
    /\ isinstance(node, "Subscript")
    /\ isinstance(node.value, "Attribute")
    /\ node.value.attr = "files"
    /\ isinstance(node.value.value, "Name")
    /\ node.value.value.id = "request"

\* SinkVisitor.get_attribute_path
get_attribute_path(node) ==
    LET root == AttributeRoot(node) IN
    Join(".", (IF isinstance(root, "Name") THEN <<root.id>> ELSE <<>>) \o AttributeParts(node))

HighAttributes ==
    {"request.form", "request.args", "request.values", "request.json",
     "request.data", "request.POST", "request.GET"}

\* a result of trace_source; deepest is the largest depth an entry below it was given
Traced(initial_source, flow, risk, deepest) ==
    [initial_source |-> initial_source, flow |-> flow, risk |-> risk, deepest |-> deepest]

Same(label, risk, depth) == Traced(label, label, risk, depth)

\* the except branch of trace_source
TraceError(depth) == Same("error in source tracing", "MEDIUM", depth)

\* if depth > 5
DepthExceededOffByOne(depth) == depth > 6

DepthExceeded(depth) == depth > 5

\* the test on a sub-flow of os.path.join
Unsafe(flow) == Contains(flow, "unknown") \/ Contains(flow, "input") \/ Contains(flow, "tainted")

subscript_desc(slice) ==
    IF isinstance(slice, "Constant") THEN "['" \o slice.s \o "']"
    ELSE IF isinstance(slice, "Name") THEN "[" \o slice.id \o "]"
    ELSE "[...]"

RECURSIVE FirstReturn(_)
\* the first Return statement of a function body, None when it has none
FirstReturn(body) ==
    IF Len(body) = 0 THEN None
    ELSE IF isinstance(Head(body), "Return") THEN Head(body)
    ELSE FirstReturn(Tail(body))

RECURSIVE MaxDeepest(_, _)
MaxDeepest(results, depth) ==
    IF Len(results) = 0 THEN depth
    ELSE Max(Head(results).deepest, MaxDeepest(Tail(results), depth))

FlowsOf(results) == [i \in 1..Len(results) |-> results[i].flow]

RECURSIVE trace_source(_, _, _)
\* self: [file_index, project_index, tainted_files]
trace_source(self, node, depth) ==
    IF DepthExceeded(depth) THEN Traced("unknown", "unknown (recursion limit)", "MEDIUM", depth)
    ELSE IF isinstance(node, "Name") THEN
        IF node.id \in self.tainted_files
        THEN Same(node.id \o " (tainted from file upload)", "HIGH", depth)
        ELSE LET assign == find_assignment(self.file_index.tree, node.id) IN
             IF IsNone(assign) THEN Same(node.id \o " (unresolved)", "MEDIUM", depth)
             ELSE IF IsRequestFiles(assign)
             THEN Same(node.id \o " (direct stream from request.files)", "HIGH", depth)
             ELSE LET r == trace_source(self, assign, depth + 1) IN
                  Traced(r.initial_source,
                         node.id \o " (assigned at line " \o ToString(assign.lineno)
                                 \o ") -> " \o r.flow,
                         r.risk, r.deepest)
    ELSE IF isinstance(node, "Call") THEN
        LET res == resolve_function_call(node, self.file_index, self.project_index)
            func_name == res.func_name
        IN
        IF res.raised THEN TraceError(depth)
        ELSE IF match_source(func_name, SOURCES) THEN
            IF func_name = "open" /\ Len(node.args) > 0
            THEN LET r == trace_source(self, node.args[1], depth + 1) IN
                 Traced(r.initial_source, "open(" \o r.flow \o ")", r.risk, r.deepest)
            ELSE Same(func_name \o " (call)", "HIGH", depth)
        ELSE IF EndsWith(func_name, "os.path.join") /\ Len(node.args) > 0 THEN
            LET subs == [i \in 1..Len(node.args) |-> trace_source(self, node.args[i], depth + 1)]
                joined_label == "os.path.join(" \o Join(", ", FlowsOf(subs)) \o ")"
                all_safe == \A i \in 1..Len(subs) : ~Unsafe(subs[i].flow)
            IN Traced(joined_label, joined_label, IF all_safe THEN "LOW" ELSE "HIGH",
                      MaxDeepest(subs, depth))
        ELSE IF ~IsNone(res.func_info) /\ ~IsNone(FirstReturn(res.func_info.node.body))
        THEN trace_source(self, FirstReturn(res.func_info.node.body).value, depth + 1)
        ELSE Same("unknown source", "MEDIUM", depth)
    ELSE IF isinstance(node, "Constant") THEN
        IF node.isstr THEN
            IF Contains(Lower(node.s), "pickle") \/ Contains(Lower(node.s), "pkl")
            THEN Traced("pickle file: '" \o node.s \o "'", "'" \o node.s \o "' (pickle file)",
                        "HIGH", depth)
            ELSE Traced("file: '" \o node.s \o "'", "'" \o node.s \o "'", "MEDIUM", depth)
        ELSE Same("constant '" \o node.s \o "'", "LOW", depth)
    ELSE IF isinstance(node, "Attribute") THEN
        LET attr == get_attribute_path(node) IN
        Same(attr \o " (attribute)", IF attr \in HighAttributes THEN "HIGH" ELSE "LOW", depth)
    ELSE IF isinstance(node, "Subscript") THEN
        LET v == trace_source(self, node.value, depth + 1)
            desc == subscript_desc(node.slice)
        IN
        IF Contains(v.flow, "request.form")
        THEN Same("request.form" \o desc \o " (HTTP POST form data)", "HIGH", v.deepest)
        ELSE IF Contains(v.flow, "request.args")
        THEN Same("request.args" \o desc \o " (HTTP GET query parameter)", "HIGH", v.deepest)
        ELSE IF Contains(v.flow, "request.json")
        THEN Same("request.json" \o desc \o " (HTTP JSON body)", "HIGH", v.deepest)
        ELSE IF Contains(v.flow, "request.files")
        THEN Same("request.files" \o desc \o " (HTTP file upload)", "HIGH", v.deepest)
        ELSE Traced(v.initial_source, v.flow \o desc, v.risk, v.deepest)
    ELSE IF isinstance(node, "BinOp") /\ node.op = "Add" THEN
        LET l == trace_source(self, node.left, depth + 1)
            r == trace_source(self, node.right, depth + 1)
        IN Traced(l.initial_source, l.flow \o " + " \o r.flow, "LOW", Max(l.deepest, r.deepest))
    ELSE Same("unknown source", "MEDIUM", depth)

-----------------------------------------------------------------------------
(* analyzer.py: SinkVisitor.detect_context                                 *)

\* the node classes of the model with an attribute named value
HasValue(node) == node.k \in {"Constant", "Attribute", "Subscript"}

\* str() of node.value: a constant's value, or the repr of the node it holds
ValueStr(node) == IF node.k = "Constant" THEN node.s ELSE "<ast." \o node.value.k \o " object>"

RECURSIVE FindKeyword(_, _)
\* the keyword arguments named arg
FindKeyword(keywords, arg) ==
    IF Len(keywords) = 0 THEN <<>>
    ELSE (IF Head(keywords).arg = arg THEN <<Head(keywords)>> ELSE <<>>)
         \o FindKeyword(Tail(keywords), arg)

\* context['http_method'] after one keyword methods=...; raised when the statement raises
MethodOf(kw, context) ==
    IF isinstance(kw.value, "List") THEN
        IF \A i \in 1..Len(kw.value.elts) :
              HasValue(kw.value.elts[i]) /\ isinstance(kw.value.elts[i], "Constant")
              /\ kw.value.elts[i].isstr
        THEN [raised |-> FALSE,
              context |-> DictSet(context, "http_method",
                  Join(", ", [i \in 1..Len(kw.value.elts) |-> kw.value.elts[i].s]))]
        ELSE [raised |-> TRUE, context |-> context]
    ELSE IF isinstance(kw.value, "Constant")
    THEN [raised |-> FALSE, context |-> DictSet(context, "http_method", kw.value.s)]
    ELSE [raised |-> FALSE, context |-> context]

RECURSIVE MethodsOf(_, _)
MethodsOf(kws, context) ==
    IF Len(kws) = 0 THEN [raised |-> FALSE, context |-> context]
    ELSE LET one == MethodOf(Head(kws), context) IN
         IF one.raised THEN one ELSE MethodsOf(Tail(kws), one.context)

\* context['http_endpoint'] = decorator.args[0].value
EndpointOf(decorator, context) ==
    IF Len(decorator.args) = 0 THEN [raised |-> FALSE, context |-> context]
    ELSE IF HasValue(decorator.args[1])
    THEN [raised |-> FALSE,
          context |-> DictSet(context, "http_endpoint", ValueStr(decorator.args[1]))]
    ELSE [raised |-> TRUE, context |-> context]

RECURSIVE RouteContext(_, _)
\* the loop over node.decorator_list, which the first route decorator ends
RouteContext(decorators, context) ==
    IF Len(decorators) = 0 THEN [raised |-> FALSE, context |-> context]
    ELSE LET decorator == Head(decorators) IN
         IF isinstance(decorator, "Call") /\ isinstance(decorator.func, "Attribute")
            /\ decorator.func.attr = "route"
         THEN LET e == EndpointOf(decorator, context) IN
              IF e.raised THEN e
              ELSE MethodsOf(FindKeyword(decorator.keywords, "methods"), e.context)
         ELSE IF isinstance(decorator, "Call") /\ isinstance(decorator.func, "Name")
                 /\ decorator.func.id = "route"
         THEN EndpointOf(decorator, context)
         ELSE RouteContext(Tail(decorators), context)

file_patterns ==
    {"load", "save", "read", "write", "open", "close", "extract",
     "deserialize", "unpickle", "import", "export", "backup", "restore"}

file_keywords == {"file", "pickle", "load", "save", "extract", "deserialize"}

task_patterns ==
    {"task", "job", "work", "execute", "run", "process", "compute",
     "worker", "runner", "handler", "do_work"}

is_file_operation_function(node) ==
    \/ \E pattern \in file_patterns : Contains(Lower(node.name), pattern)
    \/ /\ Len(node.body) > 0
       /\ isinstance(node.body[1], "Expr")
       /\ isinstance(node.body[1].value, "Constant")
       /\ node.body[1].value.isstr
       /\ \E word \in file_keywords : Contains(Lower(node.body[1].value.s), word)

is_task_function(node) ==
    \E pattern \in task_patterns : Contains(Lower(node.name), pattern)

\* the operation_type and function_name entries, the task entry written last
OperationContext(node, context) ==
    LET c1 == IF is_file_operation_function(node)
              THEN DictSet(DictSet(context, "operation_type", "file_operation"),
                           "function_name", node.name)
              ELSE context
    IN IF is_task_function(node)
       THEN DictSet(DictSet(c1, "operation_type", "task_execution"), "function_name", node.name)
       ELSE c1

RECURSIVE ContextsOf(_, _)
\* the loop of detect_context over the nodes of ast.walk
ContextsOf(nodes, contexts) ==
    IF Len(nodes) = 0 THEN [raised |-> FALSE, contexts |-> contexts]
    ELSE LET node == Head(nodes) IN
         IF ~isinstance(node, "FunctionDef") THEN ContextsOf(Tail(nodes), contexts)
         ELSE LET r == RouteContext(node.decorator_list, EmptyDict) IN
              IF r.raised THEN [raised |-> TRUE, contexts |-> contexts]
              ELSE LET context == OperationContext(node, r.context) IN
                   ContextsOf(Tail(nodes),
                              IF DOMAIN context # {} THEN DictSet(contexts, node.name, context)
                              ELSE contexts)

detect_context(file_index) == ContextsOf(walk(file_index.tree), EmptyDict)

-----------------------------------------------------------------------------
(* analyzer.py: Finding, and the sort of analyze_index                     *)

Finding(sink, initial_source, flow, filename, lineno, risk, context) ==
    [sink |-> sink, initial_source |-> initial_source, flow |-> flow,
     filename |-> filename, lineno |-> lineno, risk |-> risk, context |-> context]

\* the characters of file names, in code point order
CodePoints == "-./0123456789ABCDEFGHIJKLMNOPQRSTUVWXYZ_abcdefghijklmnopqrstuvwxyz"

Ord(c) == FindFrom(CodePoints, c, 1)

RECURSIVE StrLess(_, _)
\* a < b on str
StrLess(a, b) ==
    IF Len(b) = 0 THEN FALSE
    ELSE IF Len(a) = 0 THEN TRUE
    ELSE IF CharAt(a, 1) = CharAt(b, 1) THEN StrLess(SubSeq(a, 2, Len(a)), SubSeq(b, 2, Len(b)))
    ELSE Ord(CharAt(a, 1)) < Ord(CharAt(b, 1))

\* RISK_LEVELS.get(f.risk, 3)
RiskRank(risk) ==
    CASE risk = "HIGH" -> 0 [] risk = "MEDIUM" -> 1 [] risk = "LOW" -> 2 [] OTHER -> 3

\* a sort by risk alone
KeyLessByRisk(f, g) == RiskRank(f.risk) < RiskRank(g.risk)

\* the sort key of f is less than the sort key of g
KeyLess(f, g) ==
    \/ RiskRank(f.risk) < RiskRank(g.risk)
    \/ /\ RiskRank(f.risk) = RiskRank(g.risk)
       /\ \/ StrLess(f.filename, g.filename)
          \/ f.filename = g.filename /\ f.lineno < g.lineno

RECURSIVE InsertSorted(_, _)
\* f put after every element of the sorted list whose key is not greater
InsertSorted(sorted, f) ==
    IF Len(sorted) = 0 THEN <<f>>
    ELSE IF KeyLess(f, Head(sorted)) THEN <<f>> \o sorted
    ELSE <<Head(sorted)>> \o InsertSorted(Tail(sorted), f)

RECURSIVE SortFindings(_)
\* findings.sort(key=...): a stable sort
SortFindings(list) ==
    IF Len(list) = 0 THEN <<>>
    ELSE InsertSorted(SortFindings(SubSeq(list, 1, Len(list) - 1)), list[Len(list)])

-----------------------------------------------------------------------------
(* analyzer.py: SinkVisitor's traversal and analyze_index                  *)

\* current_function is None
NoFunction == "None"

CurrentFile == project_index.files[file_pos]

\* the node the visitor is about to visit
Top == Head(pending)

TopNode == NodeAt(CurrentFile.tree, Top.path)

Visiting(class) ==
    /\ an_pc = "visit"
    /\ Len(pending) > 0
    /\ Top.op = "visit"
    /\ TopNode.k = class

\* generic_visit(node): the children of the node at path, to be visited in order
ChildVisits(path, node) ==
    [i \in 1..Len(iter_child_nodes(node)) |-> [op |-> "visit", path |-> Append(path, i)]]

\* the flow of the finding, after the context of the enclosing function
enhanced_flow(context, flow) ==
    IF DictGet(context, "http_endpoint", "") # "" /\ Contains(flow, "request.")
    THEN "HTTP " \o DictGet(context, "http_method", "GET") \o " "
         \o context["http_endpoint"] \o " -> " \o flow
    ELSE IF DictGet(context, "operation_type", "") = "file_operation"
    THEN "File Operation (" \o DictGet(context, "function_name", "unknown") \o ") -> " \o flow
    ELSE IF DictGet(context, "operation_type", "") = "task_execution"
    THEN "Task Execution (" \o DictGet(context, "function_name", "unknown") \o ") -> " \o flow
    ELSE flow

\* the path of every save call is tainted, whatever it is called on
SaveTaintsAnyReceiver(node, tainted) ==
    IF /\ isinstance(node.func, "Attribute")
       /\ node.func.attr = "save"
       /\ isinstance(node.func.value, "Name")
       /\ Len(node.args) > 0
       /\ isinstance(node.args[1], "Name")
    THEN {node.args[1].id}
    ELSE {}

\* the names visit_Call adds to tainted_files: file.save(file_path)
SaveTaints(node, tainted) ==
    IF /\ isinstance(node.func, "Attribute")
       /\ node.func.attr = "save"
       /\ isinstance(node.func.value, "Name")
       /\ Len(node.args) > 0
       /\ node.func.value.id \in tainted
       /\ isinstance(node.args[1], "Name")
    THEN {node.args[1].id}
    ELSE {}

\* a sink recognised by its last component alone
IsSinkByMethod(sink_name) == EndsWith(sink_name, ".load") \/ EndsWith(sink_name, ".loads")

\* sink_name in SINKS
IsSink(sink_name) == sink_name \in SINKS

\* SinkVisitor(file_index, project_index): detect_context raises, or the visitor starts
\* the file the loop goes on with after every file but the failing one was given up
AfterFileErrorAbort(pos) == Len(project_index.files) + 1

\* lines 69-71: the exception is caught and the loop goes on with the next file
AfterFileError(pos) == pos + 1

Construct ==
    /\ an_pc = "construct"
    /\ file_pos <= Len(project_index.files)
    /\ LET d == detect_context(CurrentFile) IN
       \/ /\ d.raised
          /\ file_errors' = file_errors \cup {CurrentFile.filename}
          /\ file_pos' = AfterFileError(file_pos)
          /\ UNCHANGED <<an_pc, pending, tainted_files, function_contexts,
                         current_function, visitor_findings>>
       \/ /\ ~d.raised
          /\ an_pc' = "visit"
          /\ pending' = <<[op |-> "visit", path |-> <<>>]>>
          /\ tainted_files' = {}
          /\ function_contexts' = d.contexts
          /\ current_function' = NoFunction
          /\ visitor_findings' = <<>>
          /\ UNCHANGED <<file_pos, file_errors>>
    /\ UNCHANGED <<project_index, findings, trace_deepest>>
    /\ UNCHANGED <<ixVars, cliVars, nameVars>>

visit_FunctionDef ==
    /\ Visiting("FunctionDef")
    /\ current_function' = TopNode.name
    /\ pending' = ChildVisits(Top.path, TopNode) \o <<[op |-> "leave", path |-> Top.path]>>
                  \o Tail(pending)
    /\ UNCHANGED <<project_index, file_pos, an_pc, tainted_files, function_contexts,
                   visitor_findings, findings, file_errors, trace_deepest>>
    /\ UNCHANGED <<ixVars, cliVars, nameVars>>

\* the finally clause of visit_FunctionDef
leave_FunctionDef ==
    /\ an_pc = "visit"
    /\ Len(pending) > 0
    /\ Top.op = "leave"
    /\ current_function' = NoFunction
    /\ pending' = Tail(pending)
    /\ UNCHANGED <<project_index, file_pos, an_pc, tainted_files, function_contexts,
                   visitor_findings, findings, file_errors, trace_deepest>>
    /\ UNCHANGED <<ixVars, cliVars, nameVars>>

visit_Assign ==
    /\ Visiting("Assign")
    /\ tainted_files' =
          IF IsRequestFiles(TopNode.value)
          THEN tainted_files \cup
               {TopNode.targets[i].id : i \in {j \in 1..Len(TopNode.targets) :
                                                  isinstance(TopNode.targets[j], "Name")}}
          ELSE tainted_files
    /\ pending' = ChildVisits(Top.path, TopNode) \o Tail(pending)
    /\ UNCHANGED <<project_index, file_pos, an_pc, function_contexts, current_function,
                   visitor_findings, findings, file_errors, trace_deepest>>
    /\ UNCHANGED <<ixVars, cliVars, nameVars>>

visit_Call ==
    /\ Visiting("Call")
    /\ LET node == TopNode
           sink_name == extract_full_func_name(node.func, CurrentFile.imports)
           tainted == tainted_files \cup SaveTaints(node, tainted_files)
           self == [file_index |-> CurrentFile, project_index |-> project_index,
                    tainted_files |-> tainted]
           source_node == IF Len(node.args) > 0 THEN node.args[1] ELSE None
           t == trace_source(self, source_node, 0)
           context == DictGet(function_contexts, current_function, EmptyDict)
       IN /\ tainted_files' = tainted
          /\ IF IsSink(sink_name)
             THEN /\ visitor_findings' = Append(visitor_findings,
                        Finding(sink_name, t.initial_source, enhanced_flow(context, t.flow),
                                CurrentFile.filename, node.lineno, t.risk, context))
                  /\ trace_deepest' = Max(trace_deepest, t.deepest)
             ELSE UNCHANGED <<visitor_findings, trace_deepest>>
    /\ pending' = ChildVisits(Top.path, TopNode) \o Tail(pending)
    /\ UNCHANGED <<project_index, file_pos, an_pc, function_contexts, current_function,
                   findings, file_errors>>
    /\ UNCHANGED <<ixVars, cliVars, nameVars>>

\* NodeVisitor.generic_visit, for the classes SinkVisitor has no method for
generic_visit ==
    /\ an_pc = "visit"
    /\ Len(pending) > 0
    /\ Top.op = "visit"
    /\ TopNode.k \notin {"FunctionDef", "Assign", "Call"}
    /\ pending' = ChildVisits(Top.path, TopNode) \o Tail(pending)
    /\ UNCHANGED <<project_index, file_pos, an_pc, tainted_files, function_contexts,
                   current_function, visitor_findings, findings, file_errors, trace_deepest>>
    /\ UNCHANGED <<ixVars, cliVars, nameVars>>

\* findings.extend(visitor.findings), and the loop goes on
Collect ==
    /\ an_pc = "visit"
    /\ Len(pending) = 0
    /\ findings' = findings \o visitor_findings
    /\ file_pos' = file_pos + 1
    /\ an_pc' = "construct"
    /\ UNCHANGED <<project_index, pending, tainted_files, function_contexts,
                   current_function, visitor_findings, file_errors, trace_deepest>>
    /\ UNCHANGED <<ixVars, cliVars, nameVars>>

\* the loop has ended: findings.sort(...), return findings
SortAndReturn ==
    /\ an_pc = "construct"
    /\ file_pos > Len(project_index.files)
    /\ findings' = SortFindings(findings)
    /\ an_pc' = "returned"
    /\ UNCHANGED <<project_index, file_pos, pending, tainted_files, function_contexts,
                   current_function, visitor_findings, file_errors, trace_deepest>>
    /\ UNCHANGED <<ixVars, cliVars, nameVars>>

\* report.py: export_json_report
\* context_info of export_json_report: http before file_operation before task_execution
context_info(context) ==
    IF DictGet(context, "http_endpoint", "") # "" THEN
        DictSet(DictSet(DictSet(EmptyDict, "type", "http"),
                        "endpoint", context["http_endpoint"]),
                "method", DictGet(context, "http_method", "GET"))
    ELSE IF DictGet(context, "operation_type", "") = "file_operation" THEN
        DictSet(DictSet(EmptyDict, "type", "file_operation"),
                "function_name", DictGet(context, "function_name", "unknown"))
    ELSE IF DictGet(context, "operation_type", "") = "task_execution" THEN
        DictSet(DictSet(EmptyDict, "type", "task_execution"),
                "function_name", DictGet(context, "function_name", "unknown"))
    ELSE EmptyDict

\* the variant of a context, "" when it has none
ContextType(context) == DictGet(context_info(context), "type", "")

\* risk_counts[finding.risk] = risk_counts.get(finding.risk, 0) + 1
Counted(counts, risk) == DictGet(counts, risk, 0) + 1

RECURSIVE risk_counts(_, _)
\* the loop of export_json_report that counts the findings by risk level
risk_counts(list, counts) ==
    IF Len(list) = 0 THEN counts
    ELSE risk_counts(Tail(list), DictSet(counts, Head(list).risk, Counted(counts, Head(list).risk)))

finding_data(f) ==
    [file |-> f.filename, line |-> f.lineno, sink |-> f.sink,
     initial_source |-> f.initial_source, flow |-> f.flow, risk |-> f.risk,
     context |-> context_info(f.context)]

\* json_data of export_json_report, without the time it was generated at
JsonData(list) ==
    [scan_info |-> [total_findings |-> Len(list), risk_summary |-> risk_counts(list, EmptyDict)],
     findings |-> [i \in 1..Len(list) |-> finding_data(list[i])]]

\* a syntax tree node that detect_context stored as a context value (ValueStr writes
\* it "<ast.Class object>"): an object json.dump has no encoding for
IsNodeObject(value) == StartsWith(value, "<ast.")

\* json.dump(json_data, f) raises TypeError
DumpRaises(data) ==
    \E i \in DOMAIN data.findings :
        \E key \in DOMAIN data.findings[i].context : IsNodeObject(data.findings[i].context[key])

\* export_json_report(findings, json_output_file): the document is written, or
\* json.dump raises on the way and leaves a file that is no document
export_json_report ==
    /\ an_pc = "returned"
    /\ an_pc' = "exported"
    /\ json_data' = IF DumpRaises(JsonData(findings))
                    THEN [raised |-> TRUE, document |-> None]
                    ELSE [raised |-> FALSE, document |-> JsonData(findings)]
    /\ UNCHANGED <<project_index, file_pos, pending, tainted_files, function_contexts,
                   current_function, visitor_findings, findings, file_errors, trace_deepest>>
    /\ UNCHANGED <<project_name, json_filename, ixVars, cliVars>>

Next ==
    \/ Construct
    \/ visit_FunctionDef
    \/ leave_FunctionDef
    \/ visit_Assign
    \/ visit_Call
    \/ generic_visit
    \/ Collect
    \/ SortAndReturn
    \/ export_json_report

-----------------------------------------------------------------------------
(* indexer.py: the project index of index_project                          *)

RECURSIVE MergeFunctions(_, _, _)
\* function_map.setdefault(fname, []).append(finfo) for the functions named in names
MergeFunctions(function_map, functions, names) ==
    IF names = {} THEN function_map
    ELSE LET fname == CHOOSE n \in names : TRUE IN
         MergeFunctions(
             DictSet(function_map, fname,
                     Append(DictGet(function_map, fname, <<>>), functions[fname])),
             functions, names \ {fname})

RECURSIVE PositionOf(_, _, _)
\* the position of the file index stored under filename, 0 when there is none
PositionOf(files, filename, i) ==
    IF i > Len(files) THEN 0
    ELSE IF files[i].filename = filename THEN i
    ELSE PositionOf(files, filename, i + 1)

\* project_index.files[original_path] = file_index and the merge into function_map
AddFile(project, file_index) ==
    LET at == PositionOf(project.files, file_index.filename, 1) IN
    [files |-> IF at = 0 THEN Append(project.files, file_index)
               ELSE [project.files EXCEPT ![at] = file_index],
     function_map |-> MergeFunctions(project.function_map, file_index.functions,
                                     DOMAIN file_index.functions)]

ProjectIndex == [files |-> <<>>, function_map |-> EmptyDict]

RECURSIVE IndexAll(_, _)
\* the project index of parsed files <<filename, tree>>, in the order given
IndexAll(project, parsed) ==
    IF Len(parsed) = 0 THEN project
    ELSE IndexAll(AddFile(project, FileIndex(Head(parsed)[1], Head(parsed)[2])), Tail(parsed))

-----------------------------------------------------------------------------
(* The analysed sources: one deserializing call, the statements that bind  *)
(* its argument, and the function, decorator or with block around it       *)

\* the longest chain of assignments x0 = x1, x1 = x2, ... a source holds
MaxChain == 7

Callees == {"pickle.load", "pickle.loads", "pkl.load", "load", "yaml.safe_load",
            "json.loads", "get().load", "shadow.load"}

\* the import statement on line 1
ImportFor(callee) ==
    CASE callee = "pkl.load"       -> Import(<<alias("pickle", "pkl")>>, 1)
      [] callee = "load"           -> ImportFrom("pickle", <<alias("load", "")>>, 1)
      [] callee = "yaml.safe_load" -> Import(<<alias("yaml", "")>>, 1)
      [] callee = "json.loads"     -> Import(<<alias("json", "")>>, 1)
      [] callee = "shadow.load"    -> Import(<<alias("json", "pickle")>>, 1)
      [] OTHER                     -> Import(<<alias("pickle", "")>>, 1)

\* the import statement on line 2
SecondImport(arg) ==
    CASE arg = "get_input() from helper" ->
            ImportFrom("helper", <<alias("get_input", "")>>, 2)
      [] arg = "h.get_input()" -> Import(<<alias("helper", "h")>>, 2)
      [] OTHER -> Import(<<alias("os", ""), alias("m", ""), alias("helper", "")>>, 2)

\* the callee expression of the call
FuncFor(callee, ln) ==
    CASE callee = "pickle.loads"   -> Attribute(Name("pickle", ln), "loads", ln)
      [] callee = "pkl.load"       -> Attribute(Name("pkl", ln), "load", ln)
      [] callee = "load"           -> Name("load", ln)
      [] callee = "yaml.safe_load" -> Attribute(Name("yaml", ln), "safe_load", ln)
      [] callee = "json.loads"     -> Attribute(Name("json", ln), "loads", ln)
      [] callee = "get().load"     -> Attribute(Call(Name("get", ln), <<>>, <<>>, ln), "load", ln)
      [] OTHER                     -> Attribute(Name("pickle", ln), "load", ln)

Args == {"none", "x", "f", "open(x)", "open(lit)", "request.form[]", "request.files[]",
         "request.data", "'model.pkl'", "'data.bin'", "5", "join(lit)", "join(x)",
         "join(form)", "x + 'y'", "get_input()", "get_input() from helper",
         "helper.get_input()", "h.get_input()", "m()", "join(m())",
         "pickle.loads(f)", "self.path", "x[0]", "join(lit input)"}

RequestAttr(attr, ln) == Attribute(Name("request", ln), attr, ln)

OsPathJoin(args, ln) ==
    Call(Attribute(Attribute(Name("os", ln), "path", ln), "join", ln), args, <<>>, ln)

\* the positional arguments of the call
ArgsFor(arg, ln) ==
    CASE arg = "none"            -> <<>>
      [] arg = "x"               -> <<Name("x", ln)>>
      [] arg = "f"               -> <<Name("f", ln)>>
      [] arg = "open(x)"         -> <<Call(Name("open", ln), <<Name("x", ln), Str("rb", ln)>>,
                                           <<>>, ln)>>
      [] arg = "open(lit)"       -> <<Call(Name("open", ln), <<Str("config.yaml", ln)>>,
                                           <<>>, ln)>>
      [] arg = "request.form[]"  -> <<Subscript(RequestAttr("form", ln), Str("payload", ln), ln)>>
      [] arg = "request.files[]" -> <<Subscript(RequestAttr("files", ln), Name("key", ln), ln)>>
      [] arg = "request.data"    -> <<RequestAttr("data", ln)>>
      [] arg = "'model.pkl'"     -> <<Str("model.pkl", ln)>>
      [] arg = "'data.bin'"      -> <<Str("data.bin", ln)>>
      [] arg = "5"               -> <<Num("5", ln)>>
      [] arg = "join(lit)"       -> <<OsPathJoin(<<Str("/safe", ln), Str("a.pkl", ln)>>, ln)>>
      [] arg = "join(lit input)" -> <<OsPathJoin(<<Str("/data", ln), Str("input.txt", ln)>>, ln)>>
      [] arg = "join(x)"         -> <<OsPathJoin(<<Name("x", ln), Str("input.txt", ln)>>, ln)>>
      [] arg = "join(form)"      -> <<OsPathJoin(<<Str("/srv", ln),
                                        Subscript(RequestAttr("form", ln), Str("p", ln), ln)>>,
                                        ln)>>
      [] arg = "x + 'y'"         -> <<BinOp(Name("x", ln), "Add", Str("y", ln), ln)>>
      [] arg \in {"get_input()", "get_input() from helper"} ->
            <<Call(Name("get_input", ln), <<>>, <<>>, ln)>>
      [] arg = "h.get_input()" ->
            <<Call(Attribute(Name("h", ln), "get_input", ln), <<>>, <<>>, ln)>>
      [] arg = "helper.get_input()" ->
            <<Call(Attribute(Name("helper", ln), "get_input", ln), <<>>, <<>>, ln)>>
      [] arg = "m()"             -> <<Call(Name("m", ln), <<>>, <<>>, ln)>>
      [] arg = "join(m())"       -> <<OsPathJoin(<<Call(Name("m", ln), <<>>, <<>>, ln),
                                                   Str("a", ln)>>, ln)>>
      [] arg = "pickle.loads(f)" -> <<Call(Attribute(Name("pickle", ln), "loads", ln),
                                           <<Name("f", ln)>>, <<>>, ln)>>
      [] arg = "self.path"       -> <<Attribute(Name("self", ln), "path", ln)>>
      [] arg = "x[0]"            -> <<Subscript(Name("x", ln), Num("0", ln), ln)>>
      [] arg = "input()"         -> <<Call(Name("input", ln), <<>>, <<>>, ln)>>
      [] arg = "inputs()"        -> <<Call(Name("inputs", ln), <<>>, <<>>, ln)>>
      [] arg = "request.data.decode()" ->
            <<Call(Attribute(RequestAttr("data", ln), "decode", ln), <<>>, <<>>, ln)>>
      [] arg = "request.database.get()" ->
            <<Call(Attribute(RequestAttr("database", ln), "get", ln), <<>>, <<>>, ln)>>

\* the statement holding the call
SinkStmt(callee, arg, ln) == Expr(Call(FuncFor(callee, ln), ArgsFor(arg, ln), <<>>, ln), ln)

Places == {"top", "with open(lit)", "with open(x)", "with open(pkl)"}

OpenRb(path, ln) == Call(Name("open", ln), <<path, Str("rb", ln)>>, <<>>, ln)

\* the call at top level, or in a with block that binds f
PlaceFor(place, callee, arg, ln) ==
    CASE place = "with open(lit)" ->
            <<With(<<withitem(OpenRb(Str("/tmp/x", ln), ln), Name("f", ln))>>,
                   <<SinkStmt(callee, arg, ln + 1)>>, ln)>>
      [] place = "with open(x)" ->
            <<With(<<withitem(OpenRb(Name("x", ln), ln), Name("f", ln))>>,
                   <<SinkStmt(callee, arg, ln + 1)>>, ln)>>
      [] place = "with open(pkl)" ->
            <<With(<<withitem(OpenRb(Str("model.pkl", ln), ln), Name("f", ln))>>,
                   <<SinkStmt(callee, arg, ln + 1)>>, ln)>>
      [] OTHER -> <<SinkStmt(callee, arg, ln)>>

PlaceLines(place) == IF place = "top" THEN 1 ELSE 2

Funcs == {"none", "handler", "route", "route get", "route(R)", "route(cfg.URL)",
          "route methods=[M]", "after nested", "in nested", "load_task", "docstring",
          "plain"}

AppRoute(args, keywords, ln) ==
    Call(Attribute(Name("app", ln), "route", ln), args, keywords, ln)

\* the statements stmts (built for line ln + FuncLines(func)) inside a function
Enclose(func, stmts, ln) ==
    CASE func = "none" -> stmts
      [] func = "handler" -> <<FunctionDef("handler", <<>>, stmts, ln)>>
      [] func = "route" ->
            <<FunctionDef("handler2",
                <<AppRoute(<<Str("/u", ln)>>,
                           <<keyword("methods", List(<<Str("POST", ln)>>, ln))>>, ln)>>,
                stmts, ln + 1)>>
      [] func = "route get" ->
            <<FunctionDef("view", <<AppRoute(<<Str("/v", ln)>>, <<>>, ln)>>, stmts, ln + 1)>>
      [] func = "route(R)" ->
            <<FunctionDef("view", <<AppRoute(<<Name("R", ln)>>, <<>>, ln)>>, stmts, ln + 1)>>
      [] func = "route(cfg.URL)" ->
            <<FunctionDef("view",
                <<AppRoute(<<Attribute(Name("cfg", ln), "URL", ln)>>, <<>>, ln)>>,
                stmts, ln + 1)>>
      [] func = "route methods=[M]" ->
            <<FunctionDef("view",
                <<AppRoute(<<Str("/v", ln)>>,
                           <<keyword("methods", List(<<Name("M", ln)>>, ln))>>, ln)>>,
                stmts, ln + 1)>>
      [] func = "after nested" ->
            <<FunctionDef("load_model", <<>>,
                <<FunctionDef("inner", <<>>, <<Return(Num("1", ln + 2), ln + 2)>>, ln + 1)>>
                \o stmts, ln)>>
      [] func = "in nested" ->
            <<FunctionDef("outer", <<>>,
                <<FunctionDef("run_job", <<>>, stmts, ln + 1)>>, ln)>>
      [] func = "load_task" -> <<FunctionDef("load_task", <<>>, stmts, ln)>>
      [] func = "docstring" ->
            <<FunctionDef("fetch", <<>>,
                <<Expr(Str("Read a pickle from disk", ln + 1), ln + 1)>> \o stmts, ln)>>
      [] func = "plain" -> <<FunctionDef("fetch", <<>>, stmts, ln)>>

\* the lines of the function's header, before its statements
FuncLines(func) ==
    CASE func = "none" -> 0
      [] func \in {"handler", "load_task", "plain"} -> 1
      [] func \in {"route", "route get", "route(R)", "route(cfg.URL)", "route methods=[M]",
                   "in nested", "docstring"} -> 2
      [] func = "after nested" -> 3

Preludes == {"none", "upload save(lit)", "upload save(x)", "save(x) upload", "x = x",
             "x = y; y = x", "x twice", "x = request.files[]", "x = request.form[]",
             "x = 'a.pkl'", "def get_input", "chain"}

ChainName(i) == IF i = 0 THEN "x" ELSE "x" \o ToString(i)

\* the statements binding the names the call's argument mentions, one a line from ln
PreludeFor(prelude, n, ln) ==
    CASE prelude = "none" -> <<>>
      [] prelude = "upload save(lit)" ->
            <<Assign(<<Name("data", ln)>>,
                     Subscript(RequestAttr("files", ln), Str("f", ln), ln), ln),
              Expr(Call(Attribute(Name("data", ln + 1), "save", ln + 1),
                        <<Str("/tmp/x", ln + 1)>>, <<>>, ln + 1), ln + 1)>>
      [] prelude = "upload save(x)" ->
            <<Assign(<<Name("data", ln)>>,
                     Subscript(RequestAttr("files", ln), Str("f", ln), ln), ln),
              Expr(Call(Attribute(Name("data", ln + 1), "save", ln + 1),
                        <<Name("x", ln + 1)>>, <<>>, ln + 1), ln + 1)>>
      [] prelude = "save(x) upload" ->
            <<Expr(Call(Attribute(Name("data", ln), "save", ln),
                        <<Name("x", ln)>>, <<>>, ln), ln),
              Assign(<<Name("data", ln + 1)>>,
                     Subscript(RequestAttr("files", ln + 1), Str("f", ln + 1), ln + 1),
                     ln + 1)>>
      [] prelude = "x = x" -> <<Assign(<<Name("x", ln)>>, Name("x", ln), ln)>>
      [] prelude = "x = y; y = x" ->
            <<Assign(<<Name("x", ln)>>, Name("y", ln), ln),
              Assign(<<Name("y", ln + 1)>>, Name("x", ln + 1), ln + 1)>>
      [] prelude = "x twice" ->
            <<Assign(<<Name("x", ln)>>, Str("notes.txt", ln), ln),
              Assign(<<Name("x", ln + 1)>>,
                     Subscript(RequestAttr("form", ln + 1), Str("p", ln + 1), ln + 1), ln + 1)>>
      [] prelude = "x = request.files[]" ->
            <<Assign(<<Name("x", ln)>>,
                     Subscript(RequestAttr("files", ln), Str("f", ln), ln), ln)>>
      [] prelude = "x = request.form[]" ->
            <<Assign(<<Name("x", ln)>>,
                     Subscript(RequestAttr("form", ln), Str("p", ln), ln), ln)>>
      [] prelude = "x = 'a.pkl'" -> <<Assign(<<Name("x", ln)>>, Str("a.pkl", ln), ln)>>
      [] prelude = "def get_input" ->
            <<FunctionDef("get_input", <<>>,
                          <<Return(RequestAttr("data", ln + 1), ln + 1)>>, ln)>>
      [] prelude = "chain" ->
            [i \in 1..n |->
                Assign(<<Name(ChainName(i - 1), ln + i - 1)>>,
                       IF i = n THEN Str("end.bin", ln + i - 1)
                       ELSE Name(ChainName(i), ln + i - 1), ln + i - 1)]

PreludeLines(prelude, n) ==
    CASE prelude \in {"upload save(lit)", "upload save(x)", "save(x) upload",
                      "x = y; y = x", "x twice", "def get_input"} -> 2
      [] prelude = "none" -> 0
      [] prelude = "chain" -> n
      [] OTHER -> 1

Orders == {"before", "after"}

\* a source: what is called, on what, bound how, where
Shape(callee, arg, prelude, n, order, place, func) ==
    [callee |-> callee, arg |-> arg, prelude |-> prelude, n |-> n, order |-> order,
     place |-> place, func |-> func]

\* the syntax tree of a source
TreeOf(s) ==
    LET first == 3
        before == IF s.order = "before" THEN PreludeFor(s.prelude, s.n, first) ELSE <<>>
        at == first + (IF s.order = "before" THEN PreludeLines(s.prelude, s.n) ELSE 0)
        inner == PlaceFor(s.place, s.callee, s.arg, at + FuncLines(s.func))
        core == Enclose(s.func, inner, at)
        end == at + FuncLines(s.func) + PlaceLines(s.place)
        after == IF s.order = "after" THEN PreludeFor(s.prelude, s.n, end) ELSE <<>>
    IN Module(<<ImportFor(s.callee), SecondImport(s.arg)>> \o before \o core \o after)

-----------------------------------------------------------------------------
(* The analysed projects                                                   *)

ShapesBinding ==
    {Shape("pickle.load", a, p, 0, o, pl, "none") :
        a \in {"none", "x", "f", "open(x)", "x + 'y'"},
        p \in Preludes \ {"chain", "def get_input"}, o \in Orders, pl \in Places}

ShapesEnclosed ==
    {Shape("pickle.loads", a, p, 0, "before", "top", fn) :
        a \in Args, p \in {"none", "x = request.form[]"}, fn \in Funcs}

ShapesCallee ==
    {Shape(c, a, "def get_input", 0, "before", "top", fn) :
        c \in Callees, a \in {"x", "'model.pkl'", "none", "pickle.loads(f)", "get_input()"},
        fn \in {"none", "handler"}}

ShapesChain ==
    {Shape("pickle.load", "x", "chain", n, o, "top", "none") : n \in 1..MaxChain, o \in Orders}

\* calls whose name is a source, has a source as leading components, or only
\* begins with the letters of one
ShapesSources ==
    {Shape("pickle.loads", a, "none", 0, "before", "top", "none") :
        a \in {"input()", "inputs()", "request.data.decode()", "request.database.get()"}}

Shapes ==
    ShapesBinding \cup ShapesEnclosed \cup ShapesCallee \cup ShapesChain \cup ShapesSources

\* pkg/helper.py: def get_input(): return request.form['q']
HelperTree ==
    Module(<<FunctionDef("get_input", <<>>,
               <<Return(Subscript(RequestAttr("form", 2), Str("q", 2), 2), 2)>>, 1)>>)

\* views.py: a route whose path is a name, around a deserializing call
ViewsTree == TreeOf(Shape("pickle.load", "request.data", "none", 0, "before", "top", "route(R)"))

ShapesShared ==
    {Shape("pickle.load", a, "none", 0, "before", "top", fn) :
        a \in {"helper.get_input()", "h.get_input()", "get_input() from helper",
               "get_input()", "request.data"},
        fn \in {"none", "route"}}

\* sources whose one finding is of risk HIGH, MEDIUM and LOW
ShapesRanked ==
    {Shape("pickle.load", a, "none", 0, "before", "top", "none") :
        a \in {"request.data", "x", "5"}}

\* two files with a finding each, indexed in either order of their names
ProjectsRanked ==
    {<<<<n[1], TreeOf(s1)>>, <<n[2], TreeOf(s2)>>>> :
        s1 \in ShapesRanked, s2 \in ShapesRanked,
        n \in {<<"a.py", "b.py">>, <<"b.py", "a.py">>}}

\* the parsed files <<filename, tree>> of the projects, in the order they are indexed
Projects ==
    {<<<<"app.py", TreeOf(s)>>>> : s \in Shapes}
    \cup {<<<<"pkg/helper.py", HelperTree>>, <<"app.py", TreeOf(s)>>>> : s \in ShapesShared}
    \cup {<<<<"app.py", TreeOf(s)>>, <<"helper.py", HelperTree>>>> : s \in ShapesShared}
    \cup {<<<<"views.py", ViewsTree>>, <<"app.py", TreeOf(s)>>>> : s \in ShapesShared}
    \cup {<<<<"app.py", TreeOf(s)>>, <<"views.py", ViewsTree>>>> : s \in ShapesShared}
    \cup ProjectsRanked

Init ==
    /\ project_index \in {IndexAll(ProjectIndex, p) : p \in Projects}
    /\ file_pos = 1
    /\ an_pc = "construct"
    /\ pending = <<>>
    /\ tainted_files = {}
    /\ function_contexts = EmptyDict
    /\ current_function = NoFunction
    /\ visitor_findings = <<>>
    /\ findings = <<>>
    /\ file_errors = {}
    /\ trace_deepest = 0
    /\ cwd = "/"
    /\ IndexerIdle
    /\ DriverIdle
    /\ NameIdle

Spec == Init /\ [][Next]_vars

-----------------------------------------------------------------------------
(* What the claims speak of                                                *)

IsCall(node) == node.k = "Call"

\* the call nodes of a file, in visiting order
CallsOf(file_index) == SelectSeq(preorder(file_index.tree), IsCall)

\* the fully-qualified callee of a call of the file
Callee(file_index, call) == extract_full_func_name(call.func, file_index.imports)

\* how many calls of the file on line ln resolve to name
CallCount(file_index, ln, name) ==
    LET calls == CallsOf(file_index) IN
    Cardinality({i \in DOMAIN calls : calls[i].lineno = ln /\ Callee(file_index, calls[i]) = name})

\* how many findings of the list name the sink on line ln of the file
FindingCount(list, filename, ln, name) ==
    Cardinality({i \in DOMAIN list :
        list[i].filename = filename /\ list[i].lineno = ln /\ list[i].sink = name})

Files == project_index.files

\* C1: when analyze_index has returned, every call of every indexed file whose
\* resolved callee is in the sink catalog has exactly one finding: on each line, as
\* many findings name a sink as that line has calls resolving to it.
SinkToFindingClosure ==
    an_pc = "returned" =>
        \A i \in DOMAIN Files :
            LET calls == CallsOf(Files[i]) IN
            \A j \in DOMAIN calls :
                LET name == Callee(Files[i], calls[j]) IN
                name \in SINKS =>
                    FindingCount(findings, Files[i].filename, calls[j].lineno, name)
                        = CallCount(Files[i], calls[j].lineno, name)

\* the findings a list holds came from sink calls of the indexed files
FromSinkCalls(list) ==
    \A k \in DOMAIN list :
        /\ list[k].sink \in SINKS
        /\ \E i \in DOMAIN Files :
              /\ Files[i].filename = list[k].filename
              /\ FindingCount(list, list[k].filename, list[k].lineno, list[k].sink)
                    <= CallCount(Files[i], list[k].lineno, list[k].sink)

\* C2: at every moment, every finding (of the visitor and of analyze_index) names a
\* member of the sink catalog and stands for a call of its file, on its line, whose
\* callee resolves through the file's imports to exactly that name; no line has more
\* findings than such calls, so a call resolving elsewhere has none.
NoFalseSinks == FromSinkCalls(findings) /\ FromSinkCalls(visitor_findings)

\* a call through an alias was reported, and a call resolving outside the catalog was not
NoFalseSinksWitness ==
    /\ an_pc = "returned"
    /\ Len(Files) = 1
    /\ "pkl" \in DOMAIN Files[1].imports
    /\ \E k \in DOMAIN findings : findings[k].sink = "pickle.load"
    /\ LET calls == CallsOf(Files[1]) IN
       \E j \in DOMAIN calls : Callee(Files[1], calls[j]) = "get_input"
    /\ Len(findings) = 1

\* C3: no trace_source call is ever entered with a depth above 6: counting from the
\* sink argument's entry at depth 0, a chain of nested calls has at most 6 recursive
\* entries, also when the assignments are cyclic.
DepthTermination == trace_deepest <= 6

\* the argument x of a sink was traced through x = x down to the entry at depth 6
DepthTerminationWitness ==
    /\ an_pc = "returned"
    /\ trace_deepest = 6
    /\ Len(findings) = 1
    /\ findings[1].initial_source = "unknown"
    /\ LET x == find_assignment(Files[1].tree, "x") IN isinstance(x, "Name") /\ x.id = "x"

\* do two expressions name the same path: the same string constant, or the same name
SamePath(p, q) ==
    \/ isinstance(p, "Constant") /\ isinstance(q, "Constant") /\ p.s = q.s
    \/ isinstance(p, "Name") /\ isinstance(q, "Name") /\ p.id = q.id

\* the positions in visiting order of a call upload.save(path) after the upload's
\* assignment, of a later with open(path, ...) as f, and of a later call sink(f)
UploadThenLoad(file_index, nodes, s, w, c) ==
    /\ s < w /\ w < c
    /\ isinstance(nodes[s], "Call")
    /\ isinstance(nodes[s].func, "Attribute")
    /\ nodes[s].func.attr = "save"
    /\ isinstance(nodes[s].func.value, "Name")
    /\ Len(nodes[s].args) > 0
    /\ \E a \in 1..(s - 1) :
          /\ isinstance(nodes[a], "Assign")
          /\ IsRequestFiles(nodes[a].value)
          /\ isinstance(nodes[a].targets[1], "Name")
          /\ nodes[a].targets[1].id = nodes[s].func.value.id
    /\ isinstance(nodes[w], "withitem")
    /\ isinstance(nodes[w].context_expr, "Call")
    /\ Callee(file_index, nodes[w].context_expr) = "open"
    /\ Len(nodes[w].context_expr.args) > 0
    /\ SamePath(nodes[s].args[1], nodes[w].context_expr.args[1])
    /\ isinstance(nodes[w].optional_vars, "Name")
    /\ isinstance(nodes[c], "Call")
    /\ Callee(file_index, nodes[c]) \in SINKS
    /\ Len(nodes[c].args) > 0
    /\ isinstance(nodes[c].args[1], "Name")
    /\ nodes[c].args[1].id = nodes[w].optional_vars.id

PositionsOf(nodes, class) == {n \in DOMAIN nodes : nodes[n].k = class}

\* C4: a sink that deserializes a file opened from the path an upload was saved to
\* has exactly one finding, of risk HIGH, whose initial_source mentions
\* 'tainted from file upload'.
UploadSavedThenLoaded ==
    an_pc = "returned" =>
        \A i \in DOMAIN Files :
            LET nodes == preorder(Files[i].tree)
                calls == PositionsOf(nodes, "Call")
            IN
            \A s \in calls : \A w \in PositionsOf(nodes, "withitem") : \A c \in calls :
                UploadThenLoad(Files[i], nodes, s, w, c) =>
                    /\ FindingCount(findings, Files[i].filename, nodes[c].lineno,
                                    Callee(Files[i], nodes[c])) = 1
                    /\ \A k \in DOMAIN findings :
                          (findings[k].filename = Files[i].filename
                              /\ findings[k].lineno = nodes[c].lineno) =>
                              /\ findings[k].risk = "HIGH"
                              /\ Contains(findings[k].initial_source,
                                          "tainted from file upload")

-----------------------------------------------------------------------------
(* os.path, for POSIX paths                                                *)

\* os.path.isabs(p)
isabs(p) == StartsWith(p, "/")

\* os.path.basename(p): what follows the last separator
basename(p) == LET parts == Split(p, "/") IN parts[Len(parts)]

\* os.path.join(a, b)
join(a, b) ==
    IF isabs(b) THEN b
    ELSE IF a = "" \/ EndsWith(a, "/") THEN a \o b
    ELSE a \o "/" \o b

RECURSIVE Collapse(_, _, _)
\* normpath's loop over the components: empty and "." are dropped, ".." takes the
\* component before it away (at the root of an absolute path it is dropped)
Collapse(comps, done, absolute) ==
    IF Len(comps) = 0 THEN done
    ELSE LET c == Head(comps) IN
         IF c = "" \/ c = "." THEN Collapse(Tail(comps), done, absolute)
         ELSE IF c # ".." THEN Collapse(Tail(comps), Append(done, c), absolute)
         ELSE IF Len(done) > 0 /\ done[Len(done)] # ".."
              THEN Collapse(Tail(comps), SubSeq(done, 1, Len(done) - 1), absolute)
         ELSE IF absolute THEN Collapse(Tail(comps), done, absolute)
         ELSE Collapse(Tail(comps), Append(done, c), absolute)

\* os.path.normpath(p); two leading slashes, which POSIX keeps, are not modelled
normpath(p) ==
    LET comps == Collapse(Split(p, "/"), <<>>, isabs(p))
        path == (IF isabs(p) THEN "/" ELSE "") \o Join("/", comps)
    IN IF path = "" THEN "." ELSE path

\* os.path.abspath(p) in the working directory dir
abspath(p, dir) == normpath(IF isabs(p) THEN p ELSE join(dir, p))

\* the components commonpath compares
Components(p) == SelectSeq(Split(p, "/"), LAMBDA c : c # "" /\ c # ".")

RECURSIVE CommonPrefix(_, _)
CommonPrefix(a, b) ==
    IF Len(a) = 0 \/ Len(b) = 0 \/ Head(a) # Head(b) THEN <<>>
    ELSE <<Head(a)>> \o CommonPrefix(Tail(a), Tail(b))

\* os.path.commonpath([a, b]) for two absolute paths
commonpath(a, b) == "/" \o Join("/", CommonPrefix(Components(a), Components(b)))

-----------------------------------------------------------------------------
(* ast_parser.py                                                           *)

\* _is_path_within_root(filepath, root) in the working directory dir
is_path_within_root(filepath, root, dir) ==
    LET abs_root == abspath(root, dir)
        abs_path == abspath(filepath, dir)
    IN commonpath(abs_root, abs_path) = abs_root

-----------------------------------------------------------------------------
(* The files of the machine index_project runs on                          *)

\* tempfile.TemporaryDirectory(): a fresh directory of the system's temp directory
temp_dir == "/tmp/tmpk3x"

\* a text read or written, or the failure to
Text(text) == [ok |-> TRUE, text |-> text]

NoText == [ok |-> FALSE, text |-> ""]

AppText == "import pickle\ndef load(p):\n  return pickle.load(p)\n"
LibText == "from json import loads as parse\nfrom pickle import *\ndef load(s):\n  return parse(s)\n"
BadText == "def f(:\n"
IndentedOld == "def f():\n\tprint 'x'\n"
IndentedUpgraded == "def f():\n\tprint('x')\n"
ParenText == "print ('x')\n"
OldBadText == "print \"x\"\ndef f(:\n"
DumpText == "def dump(o):\n  return o\n"

\* the readable files: absolute path and text
Disk ==
    << [path |-> "/home/u/proj/app.py",     text |-> AppText],
       [path |-> "/home/u/proj/lib/app.py", text |-> LibText],
       [path |-> "/home/u/proj/bad.py",     text |-> BadText],
       [path |-> "/home/u/proj/old.py",     text |-> IndentedOld],
       [path |-> "/home/u/proj/paren.py",   text |-> ParenText],
       [path |-> "/home/u/proj/oldbad.py",  text |-> OldBadText],
       [path |-> "/tmp/dump.py",            text |-> DumpText] >>

\* the paths given to index_project: absolute ones, one relative to the working
\* directory, and one that names no file
InputPaths ==
    {Disk[i].path : i \in DOMAIN Disk} \cup {"app.py", "/home/u/proj/gone.py"}

WorkingDirectories == {"/home/u/proj", "/tmp"}

\* the text of the file at an absolute path, NoText when open() raises
ReadFile(abs) ==
    IF \E i \in DOMAIN Disk : Disk[i].path = abs
    THEN Text(Disk[CHOOSE i \in DOMAIN Disk : Disk[i].path = abs].text)
    ELSE NoText

\* ast.parse(text): the tree of the text, None when it raises SyntaxError
ast_parse(text) ==
    CASE text = AppText ->
           Module(<<Import(<<alias("pickle", "")>>, 1),
                    FunctionDef("load", <<>>,
                        <<Return(Call(Attribute(Name("pickle", 3), "load", 3),
                                      <<Name("p", 3)>>, <<>>, 3), 3)>>, 2)>>)
      [] text = LibText ->
           Module(<<ImportFrom("json", <<alias("loads", "parse")>>, 1),
                    ImportFrom("pickle", <<alias("*", "")>>, 2),
                    FunctionDef("load", <<>>,
                        <<Return(Call(Name("parse", 4), <<Name("s", 4)>>, <<>>, 4), 4)>>, 3)>>)
      [] text = DumpText ->
           Module(<<FunctionDef("dump", <<>>, <<Return(Name("o", 2), 2)>>, 1)>>)
      [] text = ParenText ->
           Module(<<Expr(Call(Name("print", 1), <<Str("x", 1)>>, <<>>, 1), 1)>>)
      [] text = IndentedUpgraded ->
           Module(<<FunctionDef("f", <<>>,
                        <<Expr(Call(Name("print", 2), <<Str("x", 2)>>, <<>>, 2), 2)>>, 1)>>)
      [] OTHER -> None

\* python3 -m lib2to3 -w -n on a text: the rewritten text, NoText when it exits non-zero
lib2to3(text) ==
    CASE text = IndentedOld -> Text(IndentedUpgraded)
      [] text = ParenText   -> Text(ParenText)
      [] OTHER              -> NoText

-----------------------------------------------------------------------------
(* indexer.py: detect_py2_print                                            *)

Whitespace == {" ", "\t", "\n", "\r"}

RECURSIVE LStrip(_)
LStrip(s) ==
    IF Len(s) > 0 /\ CharAt(s, 1) \in Whitespace THEN LStrip(SubSeq(s, 2, Len(s))) ELSE s

RECURSIVE RStrip(_)
RStrip(s) ==
    IF Len(s) > 0 /\ CharAt(s, Len(s)) \in Whitespace
    THEN RStrip(SubSeq(s, 1, Len(s) - 1))
    ELSE s

\* s.strip()
Strip(s) == RStrip(LStrip(s))

\* s.splitlines() for lines that end with "\n": no empty last line
splitlines(s) ==
    LET parts == Split(s, "\n") IN
    IF parts[Len(parts)] = "" THEN SubSeq(parts, 1, Len(parts) - 1) ELSE parts

\* any(line.strip().startswith("print ") and not line.strip().startswith("print(") ...)
detect_py2_print(source_code) ==
    LET lines == splitlines(source_code) IN
    \E i \in DOMAIN lines :
        /\ StartsWith(Strip(lines[i]), "print ")
        /\ ~StartsWith(Strip(lines[i]), "print(")

-----------------------------------------------------------------------------
(* ast_parser.py: parse_file_to_ast, and the files it opens                *)

Checked(path, root, within) == [op |-> "check", path |-> path, root |-> root, within |-> within]

Opened(path, mode) == [op |-> "open", path |-> path, mode |-> mode]

\* parse_file_to_ast(filepath, safe_root=safe_root) at the default verbosity, for a
\* file of the scratch directory files, in the working directory dir
parse_file_to_ast(filepath, safe_root, files, dir) ==
    LET root == IF IsNone(safe_root) THEN [path |-> dir] ELSE safe_root
        within == is_path_within_root(filepath, root.path, dir)
        check == Checked(abspath(filepath, dir), abspath(root.path, dir), within)
        tree == ast_parse(files[basename(filepath)])
    IN IF ~within
       THEN [raised |-> TRUE, tree |-> None, log |-> <<check>>, printed |-> <<>>]
       ELSE [raised |-> FALSE, tree |-> tree,
             log |-> <<check, Opened(abspath(filepath, dir), "r")>>,
             printed |-> IF IsNone(tree)
                         THEN <<[msg |-> "Failed to parse", path |-> filepath]>>
                         ELSE <<>>]

-----------------------------------------------------------------------------
(* indexer.py: index_project                                               *)

\* an iteration that ends in an exception
Raises(exc, files, log) ==
    [outcome |-> "exception", exc |-> exc, files |-> files, log |-> log,
     printed |-> <<>>, tree |-> None]

\* an iteration that ends at line 101, at lines 110-117 or at line 131
Ends(outcome, files, log, printed, tree) ==
    [outcome |-> outcome, exc |-> "", files |-> files, log |-> log,
     printed |-> printed, tree |-> tree]

\* the upgrader runs on every legacy file, asked for or not
UpgradeNeverDeclined(py2) == FALSE

\* if not py2_mode, line 99
UpgradeDeclined(py2) == ~py2

\* the body of the try statement for original_path, lines 89-131, up to the point
\* where the iteration is decided
Iteration(original_path) ==
    LET abs == abspath(original_path, cwd)
        code == ReadFile(abs)
        temp_path == join(temp_dir, basename(original_path))
        copied == DictSet(scratch, basename(original_path), code.text)
        copy_log == <<Opened(abs, "r"), Opened(temp_path, "w")>>
        legacy == detect_py2_print(code.text)
        converted == IF upgrader THEN lib2to3(code.text) ELSE NoText
        upgraded == IF legacy
                    THEN DictSet(scratch, basename(original_path), converted.text)
                    ELSE copied
        parsed == parse_file_to_ast(temp_path, None, upgraded, cwd)
    IN IF ~code.ok THEN Raises("FileNotFoundError", scratch, <<>>)
       ELSE IF legacy /\ UpgradeDeclined(py2_mode)
       THEN Ends("legacy", copied, copy_log,
                 <<[msg |-> "Python 2 syntax detected", path |-> original_path]>>, None)
       ELSE IF legacy /\ ~converted.ok
       THEN Raises("CalledProcessError", copied, copy_log)
       ELSE IF parsed.raised
       THEN Raises("Exception", upgraded, copy_log \o parsed.log)
       ELSE Ends(IF IsNone(parsed.tree) THEN "unparsable" ELSE "parsed",
                 upgraded, copy_log \o parsed.log, parsed.printed, parsed.tree)

\* lines 111-117: under skip_errors the loop goes on, otherwise sys.exit(1)
AfterParseFailureAlwaysContinue(skip) == "continue"

AfterParseFailure(skip) == IF skip THEN "continue" ELSE "exit"

\* lines 134-138: under skip_errors the loop goes on, otherwise the exception is raised again
AfterException(skip) == IF skip THEN "continue" ELSE "raise"

\* continue: the loop takes the next path
Continue(r) ==
    /\ ix_pos' = ix_pos + 1
    /\ scratch' = r.files
    /\ UNCHANGED <<ix_pc, ix_exit>>

\* index_project is left; the with statement removes the temporary directory
Leave(pc, exit) ==
    /\ ix_pc' = pc
    /\ ix_exit' = exit
    /\ scratch' = EmptyDict
    /\ UNCHANGED ix_pos

InLoop == ix_pc = "loop" /\ ix_pos <= Len(filepaths)

\* lines 98-101: a legacy file without --py2-support is announced and left out
legacy_skipped ==
    /\ InLoop
    /\ \E r \in {Iteration(filepaths[ix_pos])} :
       /\ r.outcome = "legacy"
       /\ io_log' = io_log \o r.log
       /\ stdout' = stdout \o r.printed
       /\ Continue(r)
    /\ UNCHANGED <<project_index, filepaths, py2_mode, skip_errors, cwd, upgrader>>
    /\ UNCHANGED <<anVars, cliVars, nameVars>>

\* lines 109-117: parse_file_to_ast returned no tree
parse_failed ==
    /\ InLoop
    /\ \E original_path \in {filepaths[ix_pos]}, r \in {Iteration(filepaths[ix_pos])} :
          /\ r.outcome = "unparsable"
          /\ io_log' = io_log \o r.log
          /\ IF AfterParseFailure(skip_errors) = "continue"
             THEN /\ stdout' = stdout \o r.printed \o
                        <<[msg |-> "Skipped: unable to parse", path |-> original_path]>>
                  /\ Continue(r)
             ELSE /\ stdout' = stdout \o r.printed \o
                        <<[msg |-> "Error: Unable to parse", path |-> original_path]>>
                  /\ Leave("exited", [exc |-> "SystemExit", code |-> 1])
    /\ UNCHANGED <<project_index, filepaths, py2_mode, skip_errors, cwd, upgrader>>
    /\ UNCHANGED <<anVars, cliVars, nameVars>>

\* lines 109-131: the file is indexed and stored under its original path
file_indexed ==
    /\ InLoop
    /\ \E original_path \in {filepaths[ix_pos]}, r \in {Iteration(filepaths[ix_pos])} :
          /\ r.outcome = "parsed"
          /\ io_log' = io_log \o r.log
          /\ stdout' = stdout \o r.printed
          /\ project_index' = AddFile(project_index, FileIndex(original_path, r.tree))
          /\ Continue(r)
    /\ UNCHANGED <<filepaths, py2_mode, skip_errors, cwd, upgrader>>
    /\ UNCHANGED <<anVars, cliVars, nameVars>>

\* lines 133-138: open, the upgrader or parse_file_to_ast raised
except_Exception ==
    /\ InLoop
    /\ \E original_path \in {filepaths[ix_pos]}, r \in {Iteration(filepaths[ix_pos])} :
          /\ r.outcome = "exception"
          /\ io_log' = io_log \o r.log
          /\ IF AfterException(skip_errors) = "continue"
             THEN /\ stdout' = stdout \o
                        <<[msg |-> "Skipped: " \o r.exc, path |-> original_path]>>
                  /\ Continue(r)
             ELSE /\ stdout' = stdout
                  /\ Leave("raised", [exc |-> r.exc, code |-> 1])
    /\ UNCHANGED <<project_index, filepaths, py2_mode, skip_errors, cwd, upgrader>>
    /\ UNCHANGED <<anVars, cliVars, nameVars>>

\* line 140: return project_index
index_return ==
    /\ ix_pc = "loop"
    /\ ix_pos > Len(filepaths)
    /\ Leave("returned", None)
    /\ UNCHANGED <<project_index, filepaths, py2_mode, skip_errors, cwd, upgrader,
                   io_log, stdout>>
    /\ UNCHANGED <<anVars, cliVars, nameVars>>

NextIndex ==
    \/ legacy_skipped
    \/ parse_failed
    \/ file_indexed
    \/ except_Exception
    \/ index_return

\* the longest list of input paths
MaxPaths == 2

PathLists == UNION {[1..n -> InputPaths] : n \in 0..MaxPaths}

InitIndex ==
    /\ filepaths \in PathLists
    /\ py2_mode \in BOOLEAN
    /\ skip_errors \in BOOLEAN
    /\ cwd \in WorkingDirectories
    /\ upgrader \in BOOLEAN
    /\ ix_pc = "loop"
    /\ ix_pos = 1
    /\ scratch = EmptyDict
    /\ io_log = <<>>
    /\ stdout = <<>>
    /\ ix_exit = None
    /\ project_index = ProjectIndex
    /\ AnalyzerIdle
    /\ DriverIdle
    /\ NameIdle

SpecIndex == InitIndex /\ [][NextIndex]_vars

-----------------------------------------------------------------------------
(* What the claims say of index_project                                    *)

\* the filenames the project index holds a file index under
IndexedNames == {project_index.files[i].filename : i \in DOMAIN project_index.files}

\* the file index stored under a filename
IndexedUnder(filename) ==
    project_index.files[PositionOf(project_index.files, filename, 1)]

\* an input path whose file can be read, is not of the legacy dialect, and parses
ReadableModernParsable(path) ==
    LET code == ReadFile(abspath(path, cwd)) IN
    /\ code.ok
    /\ ~detect_py2_print(code.text)
    /\ ~IsNone(ast_parse(code.text))

\* the function records of a file index are in the function map, under their names
FunctionsMerged(file_index) ==
    \A name \in DOMAIN file_index.functions :
        /\ name \in DOMAIN project_index.function_map
        /\ \E k \in DOMAIN project_index.function_map[name] :
               project_index.function_map[name][k] = file_index.functions[name]

\* C6: when index_project returns, every input path whose content is readable, is
\* not legacy-dialect and parses has a file index stored under that original path,
\* with the original path as its filename, and its function records are in the
\* project function map
OriginalPathIndexed ==
    ix_pc = "returned" =>
        \A i \in DOMAIN filepaths :
            ReadableModernParsable(filepaths[i]) =>
                /\ filepaths[i] \in IndexedNames
                /\ FunctionsMerged(IndexedUnder(filepaths[i]))

\* the messages of a kind that were printed
Printed(msg) == {i \in DOMAIN stdout : stdout[i].msg = msg}

\* the input paths whose iteration ends with the file indexed
Parsed == {filepaths[i] : i \in {j \in DOMAIN filepaths :
                                     Iteration(filepaths[j]).outcome = "parsed"}}

\* C7: once parse_file_to_ast has returned no tree for a file: under skip_errors the
\* file is not in the index, the run is never aborted, and when it returns every
\* input path was processed and the paths that parse are all indexed; without
\* skip_errors the run has ended by sys.exit with a non-zero status, at that file,
\* and has returned nothing
ParseFailurePolicy ==
    \A i \in Printed("Failed to parse") :
        IF skip_errors
        THEN /\ stdout[i + 1] = [msg |-> "Skipped: unable to parse",
                                 path |-> stdout[i + 1].path]
             /\ stdout[i + 1].path \notin IndexedNames
             /\ ix_pc \in {"loop", "returned"}
             /\ ix_pc = "returned" =>
                   /\ ix_pos = Len(filepaths) + 1
                   /\ IndexedNames = Parsed
        ELSE /\ ix_pc = "exited"
             /\ ix_exit.exc = "SystemExit"
             /\ ix_exit.code # 0
             /\ i + 1 = Len(stdout)
             /\ stdout[i + 1].path = filepaths[ix_pos]

\* a file that does not parse was skipped, and the file after it was indexed
ParseFailurePolicyWitness ==
    /\ ix_pc = "returned"
    /\ skip_errors
    /\ Len(filepaths) = 2
    /\ Printed("Skipped: unable to parse") # {}
    /\ IndexedNames = {filepaths[2]}

\* the path at position i is a readable file of the legacy dialect, and the upgrade
\* is not enabled
LegacyDeclinedAt(i) ==
    LET code == ReadFile(abspath(filepaths[i], cwd)) IN
    code.ok /\ detect_py2_print(code.text) /\ ~py2_mode

\* C8: a run in which a legacy-dialect file was met with the upgrade disabled
\* returns normally only if skip_errors is set
LegacyFatalWithoutSkipErrors ==
    (ix_pc = "returned" /\ \E i \in DOMAIN filepaths : LegacyDeclinedAt(i)) => skip_errors

\* C8, amended: a legacy-dialect file met with the upgrade disabled is announced
\* and skipped, and the loop goes on with the next path, with or without skip_errors
LegacySkippedAlways ==
    [][(InLoop /\ LegacyDeclinedAt(ix_pos)) =>
          /\ ix_pc' = "loop"
          /\ ix_pos' = ix_pos + 1
          /\ project_index' = project_index
          /\ stdout' = Append(stdout, [msg |-> "Python 2 syntax detected",
                                       path |-> filepaths[ix_pos]])]_vars

\* without skip_errors, a legacy file was skipped and the file after it was indexed
LegacySkippedAlwaysWitness ==
    /\ ix_pc = "returned"
    /\ ~skip_errors
    /\ Len(filepaths) = 2
    /\ LegacyDeclinedAt(1)
    /\ Printed("Python 2 syntax detected") = {1}
    /\ IndexedNames = {filepaths[2]}

\* the default safe root of parse_file_to_ast: os.getcwd()
SafeRoot == cwd

\* C10: every file opened for reading is a descendant of the safe root, and the
\* check of its path came before the open
SafeRootEnforced ==
    \A i \in DOMAIN io_log :
        (io_log[i].op = "open" /\ io_log[i].mode = "r") =>
            /\ is_path_within_root(io_log[i].path, SafeRoot, cwd)
            /\ \E j \in 1..(i - 1) :
                   /\ io_log[j].op = "check"
                   /\ io_log[j].path = io_log[i].path
                   /\ io_log[j].within

-----------------------------------------------------------------------------
(* cli.py: discover_python_files                                           *)

\* os.path.isfile(p) in the working directory dir
isfile(p, dir) == ReadFile(abspath(p, dir)).ok

\* is the sequence a a proper prefix of the sequence b
ProperPrefix(a, b) == Len(a) < Len(b) /\ SubSeq(b, 1, Len(a)) = a

\* os.path.isdir(p) in the working directory dir: some file lies below it
isdir(p, dir) ==
    \E i \in DOMAIN Disk :
        ProperPrefix(Components(abspath(p, dir)), Components(Disk[i].path))

RECURSIVE JoinAll(_, _)
\* os.path.join(root, part, part, ...)
JoinAll(root, parts) ==
    IF Len(parts) = 0 THEN root ELSE JoinAll(join(root, Head(parts)), Tail(parts))

RECURSIVE WalkLevel(_, _, _, _)
\* os.path.join(root, filename) for the files of Disk, from position i on, that lie
\* depth directories below target
WalkLevel(target, dir, depth, i) ==
    IF i > Len(Disk) THEN <<>>
    ELSE LET top == Components(abspath(target, dir))
             file == Components(Disk[i].path)
             rest == WalkLevel(target, dir, depth, i + 1)
         IN IF ProperPrefix(top, file) /\ Len(file) = Len(top) + depth + 1
            THEN <<JoinAll(target, SubSeq(file, Len(top) + 1, Len(file)))>> \o rest
            ELSE rest

\* the files os.walk(target) yields, top-down: a directory's files, then those of
\* its subdirectories (the files of Disk lie at most one directory below a target)
Walk(target, dir) == WalkLevel(target, dir, 0, 1) \o WalkLevel(target, dir, 1, 1)

\* should_exclude(filepath)
should_exclude(filepath, exclude_patterns) ==
    \E i \in DOMAIN exclude_patterns : Contains(filepath, exclude_patterns[i])

\* discover_python_files(target, exclude_patterns) in the working directory dir
discover_python_files(target, exclude_patterns, dir) ==
    IF isfile(target, dir) /\ EndsWith(target, ".py")
    THEN IF should_exclude(target, exclude_patterns) THEN <<>>
         ELSE <<abspath(target, dir)>>
    ELSE IF isdir(target, dir)
    THEN SelectSeq(Walk(target, dir),
                   LAMBDA full_path : /\ EndsWith(full_path, ".py")
                                      /\ ~should_exclude(full_path, exclude_patterns))
    ELSE <<>>

-----------------------------------------------------------------------------
(* cli.py: main                                                            *)

\* def index_project(filepaths, py2_mode=False, skip_errors=False), indexer.py line 78
index_project_params == <<"filepaths", "py2_mode", "skip_errors">>

\* def analyze_index(project_index, verbose=False), analyzer.py line 55
analyze_index_params == <<"project_index", "verbose">>

\* the keywords of the calls at lines 86-91 and at line 92
index_project_keywords == {"py2_mode", "skip_errors", "verbosity"}

analyze_index_keywords == {"verbose", "verbosity"}

\* Python binds a call's arguments: positional ones to the first parameters, every
\* keyword to a parameter of that name not yet bound; otherwise TypeError
Binds(params, positional, keywords) ==
    /\ positional <= Len(params)
    /\ \A kw \in keywords : \E i \in (positional + 1)..Len(params) : params[i] = kw

\* the try statement of main, lines 84-122: the calls that complete, and the exception
\* that ends them; only KeyboardInterrupt is caught
TryBlock(arguments) ==
    IF ~Binds(index_project_params, 1, index_project_keywords)
    THEN [completed |-> <<>>, exc |-> "TypeError"]
    ELSE IF ~Binds(analyze_index_params, 1, analyze_index_keywords)
    THEN [completed |-> <<"index_project">>, exc |-> "TypeError"]
    ELSE [completed |-> <<"index_project", "analyze_index">>
                        \o (IF arguments.html THEN <<"export_html_report">> ELSE <<>>)
                        \o (IF arguments.json THEN <<"export_json_report">> ELSE <<>>),
          exc |-> ""]

\* line 79: python_files = discover_python_files(args.target, args.exclude)
discover ==
    /\ cli_pc = "discover"
    /\ python_files' = discover_python_files(cli_args.target, cli_args.exclude, cwd)
    /\ phases' = Append(phases, "discover_python_files")
    /\ cli_pc' = "discovered"
    /\ UNCHANGED <<cli_args, exit_code>>
    /\ UNCHANGED <<project_index, anVars, ixVars, nameVars>>

\* lines 80-82: nothing to scan; main returns and the process ends with status 0
no_python_files ==
    /\ cli_pc = "discovered"
    /\ Len(python_files) = 0
    /\ cli_pc' = "done"
    /\ exit_code' = 0
    /\ UNCHANGED <<cli_args, python_files, phases>>
    /\ UNCHANGED <<project_index, anVars, ixVars, nameVars>>

\* lines 84-122: the try statement; an exception that is not caught ends the process
\* with status 1, the end of main with status 0
main_try ==
    /\ cli_pc = "discovered"
    /\ Len(python_files) > 0
    /\ \E t \in {TryBlock(cli_args)} :
          /\ phases' = phases \o t.completed
          /\ exit_code' = IF t.exc = "" THEN 0 ELSE 1
    /\ cli_pc' = "done"
    /\ UNCHANGED <<cli_args, python_files>>
    /\ UNCHANGED <<project_index, anVars, ixVars, nameVars>>

NextCli ==
    \/ discover
    \/ no_python_files
    \/ main_try

Targets == {"/home/u/proj", ".", "lib", "app.py", "/tmp/dump.py", "/tmp", "nothing"}

Excludes == {<<>>, <<"lib">>, <<"old", "bad">>}

\* the arguments argparse hands to main
Arguments ==
    [target : Targets, exclude : Excludes, html : BOOLEAN, json : BOOLEAN,
     py2_support : BOOLEAN, skip_errors : BOOLEAN, verbose : BOOLEAN,
     scan_verbosity : {"quiet", "normal", "verbose"}]

InitCli ==
    /\ cli_args \in Arguments
    /\ cwd \in WorkingDirectories
    /\ cli_pc = "discover"
    /\ python_files = <<>>
    /\ phases = <<>>
    /\ exit_code = None
    /\ project_index = ProjectIndex
    /\ AnalyzerIdle
    /\ IndexerIdle
    /\ NameIdle

SpecCli == InitCli /\ [][NextCli]_vars

\* the calls of a run that succeeds, in their order
FullRun ==
    <<"discover_python_files", "index_project", "analyze_index">>
    \o (IF cli_args.html THEN <<"export_html_report">> ELSE <<>>)
    \o (IF cli_args.json THEN <<"export_json_report">> ELSE <<>>)

\* every discovered file can be read, is not of the legacy dialect and parses, from a
\* working directory that holds the temporary directory: no file is fatal
NoFatalFile ==
    /\ cwd = "/tmp"
    /\ \A i \in DOMAIN python_files : ReadableModernParsable(python_files[i])

\* C5: when discovery yields at least one file and no file is fatal, main runs
\* index_project, then analyze_index, then every requested export, and the process
\* ends with exit code 0
DriverRunsToSuccess ==
    (cli_pc = "done" /\ Len(python_files) > 0 /\ NoFatalFile) =>
        /\ exit_code = 0
        /\ phases = FullRun

-----------------------------------------------------------------------------
(* utils.py: sanitize_filename, and the names main gives the reports       *)

\* the longest name sanitize_filename lets through
MaxNameLen == 100

\* pathlib's Path(filename).name: the last component, empty and "." components apart
PathName(filename) ==
    LET parts == Components(filename) IN
    IF Len(parts) = 0 THEN "" ELSE parts[Len(parts)]

\* sanitize_filename(filename)
sanitize_filename(filename) ==
    IF filename = "" THEN "unnamed"
    ELSE LET safe_name == PathName(filename)
             cut == IF Len(safe_name) > MaxNameLen
                    THEN SubSeq(safe_name, 1, MaxNameLen)
                    ELSE safe_name
         IN IF cut = "" THEN "unnamed" ELSE cut

\* lines 99-102: the project name of a target, in the working directory dir
ProjectNameOf(target, dir) ==
    LET base == basename(abspath(target, dir))
        stem == IF EndsWith(base, ".py") THEN SubSeq(base, 1, Len(base) - 3) ELSE base
    IN sanitize_filename(stem)

\* datetime.datetime.now().strftime("%Y%m%d_%H%M%S")
Timestamps == {"20240229_235959", "20261103_072500"}

\* lines 95-102: a report is asked for; the project name is taken from the target
name_project ==
    /\ cli_pc = "export"
    /\ cli_args.html \/ cli_args.json
    /\ IsNone(project_name)
    /\ project_name' = [name |-> ProjectNameOf(cli_args.target, cwd)]
    /\ UNCHANGED <<json_filename, json_data, project_index, anVars, ixVars, cliVars>>

\* lines 107-119: the JSON report's file in the reports directory
name_json_report ==
    /\ cli_pc = "export"
    /\ cli_args.json
    /\ ~IsNone(project_name)
    /\ IsNone(json_filename)
    /\ \E timestamp \in Timestamps :
          json_filename' = [name |-> project_name.name \o "_" \o timestamp \o ".json"]
    /\ UNCHANGED <<project_name, json_data, project_index, anVars, ixVars, cliVars>>

NextName ==
    \/ name_project
    \/ name_json_report

RECURSIVE Repeat(_, _)
\* s * n
Repeat(s, n) == IF n = 0 THEN "" ELSE s \o Repeat(s, n - 1)

\* the last components of the targets: plain, hidden, dots only, with the .py
\* suffix, and longer than the cap
Leaves ==
    {"proj", "app.py", ".hidden", ".py", "..py", "...py", ".", "..", "", ".env.py",
     Repeat("n", MaxNameLen), Repeat("n", MaxNameLen + 1),
     Repeat("n", MaxNameLen + 1) \o ".py", "." \o Repeat("n", MaxNameLen + 3)}

NameTargets ==
    {d \o leaf \o slash : d \in {"", "/", "srv/", "/srv/app/", "../", ".git/"},
                          leaf \in Leaves, slash \in {"", "/"}}

InitName ==
    /\ cli_args \in [target : NameTargets, exclude : {<<>>}, html : BOOLEAN,
                     json : BOOLEAN, py2_support : {FALSE}, skip_errors : {FALSE},
                     verbose : {FALSE}, scan_verbosity : {"normal"}]
    /\ cwd \in WorkingDirectories
    /\ cli_pc = "export"
    /\ python_files = <<>>
    /\ phases = <<>>
    /\ exit_code = None
    /\ project_name = None
    /\ json_filename = None
    /\ json_data = None
    /\ project_index = ProjectIndex
    /\ AnalyzerIdle
    /\ IndexerIdle

SpecName == InitName /\ [][NextName]_vars

\* C9: the project name that names the reports contains no path separator, does not
\* start with ".", is not empty and is at most 100 characters long
ProjectNameSafe ==
    ~IsNone(project_name) =>
        /\ ~Contains(project_name.name, "/")
        /\ ~StartsWith(project_name.name, ".")
        /\ project_name.name # ""
        /\ Len(project_name.name) <= 100

-----------------------------------------------------------------------------
(* The context of a function and the flow of its findings                  *)

IsFunctionDef(node) == node.k = "FunctionDef"

\* the function definitions detect_context comes to
FunctionDefs(tree) == SelectSeq(walk(tree), IsFunctionDef)

\* the function carries a route decorator, in one of the two forms detect_context knows
HasRoute(node) ==
    \E i \in 1..Len(node.decorator_list) :
        LET decorator == node.decorator_list[i] IN
        /\ isinstance(decorator, "Call")
        /\ \/ isinstance(decorator.func, "Attribute") /\ decorator.func.attr = "route"
           \/ isinstance(decorator.func, "Name") /\ decorator.func.id = "route"

\* the variant the detectors give a function when HttpEndpoint comes before
\* FileOperation and FileOperation before TaskExecution
DetectedType(node) ==
    IF HasRoute(node) THEN "http"
    ELSE IF is_file_operation_function(node) THEN "file_operation"
    ELSE IF is_task_function(node) THEN "task_execution"
    ELSE ""

\* C11: while a file is visited, the context attached to each of its functions is
\* the one variant the precedence HttpEndpoint, FileOperation, TaskExecution selects
\* among the detectors the function matches; a function matching both the
\* file-operation and the task keyword lists is tagged FileOperation.
ContextPrecedence ==
    an_pc = "visit" =>
        LET defs == FunctionDefs(CurrentFile.tree) IN
        \A i \in DOMAIN defs :
            ContextType(DictGet(function_contexts, defs[i].name, EmptyDict))
                = DetectedType(defs[i])

\* the innermost function definition whose body holds the node at path, None at top level
EnclosingFunction(tree, path) ==
    LET around == {n \in 0..(Len(path) - 1) :
                      LET node == NodeAt(tree, SubSeq(path, 1, n)) IN
                      node.k = "FunctionDef" /\ path[n + 1] <= Len(node.body)}
    IN IF around = {} THEN None
       ELSE NodeAt(tree, SubSeq(path, 1, CHOOSE n \in around : \A m \in around : m <= n))

\* the flow the enrichment rule gives a traced flow under a context of one variant
EnrichedFlow(context, flow) ==
    LET info == context_info(context)
        type == DictGet(info, "type", "")
    IN
    IF type = "http" THEN
        IF Contains(flow, "request.")
        THEN "HTTP " \o info["method"] \o " " \o info["endpoint"] \o " -> " \o flow
        ELSE flow
    ELSE IF type = "file_operation"
    THEN "File Operation (" \o info["function_name"] \o ") -> " \o flow
    ELSE IF type = "task_execution"
    THEN "Task Execution (" \o info["function_name"] \o ") -> " \o flow
    ELSE flow

\* the visitor is at a call whose callee is in the sink catalog
AtSink ==
    /\ Visiting("Call")
    /\ IsSink(extract_full_func_name(TopNode.func, CurrentFile.imports))

\* the traced flow of the sink the visitor is at
TracedFlow ==
    trace_source([file_index |-> CurrentFile, project_index |-> project_index,
                  tainted_files |-> tainted_files \cup SaveTaints(TopNode, tainted_files)],
                 IF Len(TopNode.args) > 0 THEN TopNode.args[1] ELSE None, 0).flow

\* the context of the function the sink the visitor is at lies in
ContextAround ==
    LET fn == EnclosingFunction(CurrentFile.tree, Top.path) IN
    IF IsNone(fn) THEN EmptyDict ELSE DictGet(function_contexts, fn.name, EmptyDict)

\* C12: the finding a sink call yields has the traced flow, enriched by the context
\* of the function the call lies in: under an HttpEndpoint context 'HTTP <method>
\* <route> -> ' is put before a flow mentioning 'request.' and any other flow is left
\* as it is; under a FileOperation or TaskExecution context '<kind> (<fn>) -> ' is
\* always put before it; without a context the flow is left as it is.
ContextEnrichment ==
    [][AtSink =>
          /\ Len(visitor_findings') = Len(visitor_findings) + 1
          /\ visitor_findings'[Len(visitor_findings')].flow
                = EnrichedFlow(ContextAround, TracedFlow)]_vars

-----------------------------------------------------------------------------
(* The order of the list analyze_index returns                             *)

\* the sort key of a is less than or equal to the sort key of b
KeyLeq(a, b) ==
    \/ RiskRank(a.risk) < RiskRank(b.risk)
    \/ /\ RiskRank(a.risk) = RiskRank(b.risk)
       /\ \/ StrLess(a.filename, b.filename)
          \/ a.filename = b.filename /\ a.lineno <= b.lineno

Sorted(list) == \A i \in 1..(Len(list) - 1) : KeyLeq(list[i], list[i + 1])

Occurrences(list, x) == Cardinality({i \in DOMAIN list : list[i] = x})

Permutation(s, t) ==
    /\ Len(s) = Len(t)
    /\ \A i \in DOMAIN s : Occurrences(s, s[i]) = Occurrences(t, s[i])

\* C13: the step in which analyze_index returns leaves a list that is sorted by (risk
\* rank, filename, line), any two consecutive findings in key order, and that is a
\* permutation of the findings collected from all files.
SortedFindings ==
    [][(an_pc # "returned" /\ an_pc' = "returned") =>
          /\ Sorted(findings')
          /\ Permutation(findings, findings')]_vars

\* the finding of the second file, of higher risk, was moved before the first file's
SortedFindingsWitness ==
    /\ an_pc = "returned"
    /\ Len(Files) = 2
    /\ Len(findings) = 2
    /\ findings[1].filename = Files[2].filename
    /\ findings[2].filename = Files[1].filename
    /\ RiskRank(findings[1].risk) < RiskRank(findings[2].risk)

-----------------------------------------------------------------------------
(* The structured-document report                                          *)

RECURSIVE SumOver(_, _)
\* the sum of the counts a risk summary holds under the keys
SumOver(summary, keys) ==
    IF keys = {} THEN 0
    ELSE LET key == CHOOSE x \in keys : TRUE IN summary[key] + SumOver(summary, keys \ {key})

\* C14: once export_json_report has run on the returned list, the report is a
\* document whose findings[] has the length of the in-memory list, whose
\* total_findings is that length and whose risk_summary counts add up to it.
ReportRoundTrip ==
    ~IsNone(json_data) =>
        /\ ~json_data.raised
        /\ Len(json_data.document.findings) = Len(findings)
        /\ json_data.document.scan_info.total_findings = Len(findings)
        /\ LET summary == json_data.document.scan_info.risk_summary IN
           SumOver(summary, DOMAIN summary) = Len(findings)

-----------------------------------------------------------------------------
(* The tainted names while a file is visited                               *)

RECURSIVE PathStack(_, _)
PathStack(tree, todo) ==
    IF Len(todo) = 0 THEN <<>>
    ELSE LET path == Head(todo)
             children == iter_child_nodes(NodeAt(tree, path))
         IN <<path>> \o PathStack(tree, [i \in 1..Len(children) |-> Append(path, i)] \o Tail(todo))

\* the paths of the nodes of a tree, in the order the visitor reaches them
PreorderPaths(tree) == PathStack(tree, <<<<>>>>)

IsPrefix(p, q) == Len(p) <= Len(q) /\ SubSeq(q, 1, Len(p)) = p

\* the node at path is still to be visited: it lies in a subtree the visitor holds
StillPending(path) ==
    \E i \in DOMAIN pending : pending[i].op = "visit" /\ IsPrefix(pending[i].path, path)

\* the nodes of the current file the visitor has visited, in visiting order: the
\* first nodes of that order, the others lying under a node it still holds
VisitedNodes ==
    LET paths == PreorderPaths(CurrentFile.tree)
        done == {i \in DOMAIN paths : ~StillPending(paths[i])}
    IN [i \in 1..Cardinality(done) |-> NodeAt(CurrentFile.tree, paths[i])]

\* the names a visited node taints, given the names tainted before it: the targets
\* of an assignment from request.files[...], and the first positional argument of
\* a save method call on a tainted name
TaintedBy(node, before) ==
    IF isinstance(node, "Assign") /\ IsRequestFiles(node.value)
    THEN {node.targets[i].id : i \in {j \in DOMAIN node.targets : node.targets[j].k = "Name"}}
    ELSE IF /\ isinstance(node, "Call")
            /\ isinstance(node.func, "Attribute")
            /\ node.func.attr = "save"
            /\ isinstance(node.func.value, "Name")
            /\ node.func.value.id \in before
            /\ Len(node.args) > 0
            /\ isinstance(node.args[1], "Name")
    THEN {node.args[1].id}
    ELSE {}

RECURSIVE TaintAfter(_, _)
TaintAfter(nodes, tainted) ==
    IF Len(nodes) = 0 THEN tainted
    ELSE TaintAfter(Tail(nodes), tainted \cup TaintedBy(Head(nodes), tainted))

\* C15: at every point of a file's traversal the tainted set holds exactly the names
\* that a node visited so far assigned directly from request.files[...] or passed
\* as the first positional argument of a save call whose receiver was tainted at that
\* moment; nothing else adds a name and nothing removes one.
TaintSetInvariant ==
    an_pc = "visit" => tainted_files = TaintAfter(VisitedNodes, {})

\* mid-traversal, the upload and the path it was saved to are tainted
TaintSetInvariantWitness ==
    /\ an_pc = "visit"
    /\ Len(pending) > 0
    /\ tainted_files = {"data", "x"}

-----------------------------------------------------------------------------
(* What a finding says about a name the file taints                        *)

\* the traversal of the current file has ended and its findings are not yet collected
FileVisited == an_pc = "visit" /\ Len(pending) = 0

\* the sink calls of the current file a finding of the visitor stands for
SinkCallsOf(f) ==
    LET calls == CallsOf(CurrentFile) IN
    {calls[j] : j \in {i \in DOMAIN calls :
                          /\ calls[i].lineno = f.lineno
                          /\ Callee(CurrentFile, calls[i]) = f.sink}}

\* what trace_source gives for the argument once every statement of the file has
\* been visited, as it does for a sink that comes after the tainting statements
TracedAtEnd(call) ==
    trace_source([file_index |-> CurrentFile, project_index |-> project_index,
                  tainted_files |-> tainted_files],
                 call.args[1], 0)

\* C16: the risk and the initial_source of the finding of a sink whose argument the
\* file's upload assignment and save call taint are those obtained when these
\* statements are visited before the sink, also when they are visited after it.
OrderIndependence ==
    FileVisited =>
        \A k \in DOMAIN visitor_findings :
            \A call \in SinkCallsOf(visitor_findings[k]) :
                (/\ Len(call.args) > 0
                 /\ isinstance(call.args[1], "Name")
                 /\ call.args[1].id \in tainted_files) =>
                    /\ visitor_findings[k].risk = TracedAtEnd(call).risk
                    /\ visitor_findings[k].initial_source = TracedAtEnd(call).initial_source

-----------------------------------------------------------------------------
(* The definition provenance tracing follows                               *)

\* the values the file binds varname to, by an assignment or a with item
BindingsOf(tree, varname) ==
    LET nodes == walk(tree) IN
    {BoundBy(nodes[i], varname) : i \in {j \in DOMAIN nodes : ~IsNone(BoundBy(nodes[j], varname))}}

\* the line of the latest definition of varname in the file
LatestLine(tree, varname) ==
    LET lines == {b.lineno : b \in BindingsOf(tree, varname)} IN
    CHOOSE l \in lines : \A m \in lines : m <= l

\* C17: the finding of a sink whose argument is an untainted name with several
\* definitions in the file has a flow that goes through the latest of them:
\* it holds '<name> (assigned at line L) -> ' with L the line of that definition.
MostRecentDefinition ==
    FileVisited =>
        \A k \in DOMAIN visitor_findings :
            \A call \in SinkCallsOf(visitor_findings[k]) :
                (/\ Len(call.args) > 0
                 /\ isinstance(call.args[1], "Name")
                 /\ call.args[1].id \notin tainted_files
                 /\ Cardinality(BindingsOf(CurrentFile.tree, call.args[1].id)) > 1) =>
                    Contains(visitor_findings[k].flow,
                             call.args[1].id \o " (assigned at line "
                                \o ToString(LatestLine(CurrentFile.tree, call.args[1].id))
                                \o ") -> ")

-----------------------------------------------------------------------------
(* Errors inside provenance tracing                                        *)

\* the label the except branch of trace_source returns
ErrorLabel == "error in source tracing"

\* C18: when analyze_index has returned, every finding whose tracing met an exception
\* at any depth, and so carries 'error in source tracing' in its flow, has risk
\* MEDIUM, and its sink has exactly one finding.
TraceErrorRecovery ==
    an_pc = "returned" =>
        \A k \in DOMAIN findings :
            Contains(findings[k].flow, ErrorLabel) =>
                /\ findings[k].risk = "MEDIUM"
                /\ FindingCount(findings, findings[k].filename, findings[k].lineno,
                                findings[k].sink) = 1

-----------------------------------------------------------------------------
(* The function record a call resolves to                                  *)

\* the file a module name stands for: the first whose path ends with the name written
\* as a directory path plus ".py", 0 when the project has none
ModuleFile(module_name) == FirstFile(Files, Replace(module_name, ".", "/") \o ".py", 1)

\* C19: for every call A.func(...) of an indexed file whose import map binds A to
\* a module M, also under another name ('import M as A'), when the project has a
\* file for M, resolve_function_call returns that first file's record for func.
ModuleAliasLookup ==
    \A i \in DOMAIN Files :
        LET calls == CallsOf(Files[i]) IN
        \A j \in DOMAIN calls :
            LET func == calls[j].func IN
            (/\ isinstance(func, "Attribute")
             /\ isinstance(func.value, "Name")
             /\ func.value.id \in DOMAIN Files[i].imports
             /\ ModuleFile(Files[i].imports[func.value.id]) # 0) =>
                LET r == resolve_function_call(calls[j], Files[i], project_index)
                    m == ModuleFile(Files[i].imports[func.value.id])
                IN /\ ~r.raised
                   /\ r.func_info = DictGet(Files[m].functions, func.attr, None)

\* name is bound in the file by 'from M import name'
FromImported(file_index, name) ==
    /\ name \in DOMAIN file_index.imports
    /\ EndsWith(file_index.imports[name], "." \o name)

\* the other files of the project that define name
OthersDefining(i, name) == {j \in DOMAIN Files : j # i /\ name \in DOMAIN Files[j].functions}

\* C20: for every call f(...) to a plain identifier, resolve_function_call returns
\* the current file's record for f when the file defines f, and otherwise, when f is
\* bound by 'from M import f' and another file of the project defines f, the record
\* of such a file.
SingleNameLookup ==
    \A i \in DOMAIN Files :
        LET calls == CallsOf(Files[i]) IN
        \A j \in DOMAIN calls :
            isinstance(calls[j].func, "Name") =>
                LET f == calls[j].func.id
                    r == resolve_function_call(calls[j], Files[i], project_index)
                IN /\ f \in DOMAIN Files[i].functions =>
                        ~r.raised /\ r.func_info = Files[i].functions[f]
                   /\ (/\ f \notin DOMAIN Files[i].functions
                       /\ FromImported(Files[i], f)
                       /\ OthersDefining(i, f) # {}) =>
                        /\ ~r.raised
                        /\ \E o \in OthersDefining(i, f) : r.func_info = Files[o].functions[f]

-----------------------------------------------------------------------------
(* What the claims say of the import map of an indexed file                *)

\* the import statements of a tree, in the order the visitor meets them
ImportStatements(tree) ==
    SelectSeq(preorder(tree), LAMBDA n : n.k \in {"Import", "ImportFrom"})

\* the name an alias of an import statement binds
BoundName(a) == IF a.asname # "" THEN a.asname ELSE a.name

\* the qualified name an alias of an import statement stands for
QualifiedName(node, a) ==
    IF node.k = "Import" THEN a.name ELSE node.module \o "." \o a.name

\* alias and qualified name of every binding of the import statements of a tree
\* that is not a wildcard
NonWildcardBindings(tree) ==
    LET stmts == ImportStatements(tree) IN
    UNION {{<<BoundName(stmts[i].names[j]), QualifiedName(stmts[i], stmts[i].names[j])>> :
               j \in {k \in DOMAIN stmts[i].names : stmts[i].names[k].name # "*"}} :
           i \in DOMAIN stmts}

\* the tree has a wildcard import
HasWildcardImport(tree) ==
    LET stmts == ImportStatements(tree) IN
    \E i \in DOMAIN stmts : \E j \in DOMAIN stmts[i].names : stmts[i].names[j].name = "*"

\* C21: the import map of every indexed file has an entry alias -> qualified name
\* for exactly the aliases its non-wildcard import statements bind; a wildcard
\* import adds no entry
ImportMapExact ==
    \A i \in DOMAIN project_index.files :
        LET file_index == project_index.files[i]
            bound == NonWildcardBindings(file_index.tree)
        IN /\ DOMAIN file_index.imports = {b[1] : b \in bound}
           /\ \A b \in bound : file_index.imports[b[1]] = b[2]

-----------------------------------------------------------------------------
(* What the claims say of detect_py2_print                                 *)

\* the line, without the white space around it, starts with "print " and the
\* character after it is not an opening parenthesis
PrintStatementLine(line) ==
    LET s == Strip(line) IN
    /\ StartsWith(s, "print ")
    /\ Len(s) > 6
    /\ CharAt(s, 7) # "("

\* some line of the source is such a line
HasPrintStatement(source_code) ==
    LET lines == splitlines(source_code) IN
    \E i \in DOMAIN lines : PrintStatementLine(lines[i])

\* the input paths the loop is done with whose file could be read
Detected == {i \in DOMAIN filepaths : i < ix_pos /\ ReadFile(abspath(filepaths[i], cwd)).ok}

\* C22: detect_py2_print is true of a source exactly when some line starts with
\* "print " followed by a character that is not an opening parenthesis; print ('x')
\* is not of the legacy dialect
LegacyDetectionExact ==
    \A i \in Detected :
        LET source_code == ReadFile(abspath(filepaths[i], cwd)).text IN
        detect_py2_print(source_code) <=> HasPrintStatement(source_code)

-----------------------------------------------------------------------------
(* What the claims say of route decorators                                 *)

\* the decorator is a call whose callee is an attribute named route
IsRouteDecorator(decorator) ==
    /\ isinstance(decorator, "Call")
    /\ isinstance(decorator.func, "Attribute")
    /\ decorator.func.attr = "route"

\* the first positional argument of the decorator is a string literal
HasLiteralRoute(decorator) ==
    /\ Len(decorator.args) > 0
    /\ isinstance(decorator.args[1], "Constant")
    /\ decorator.args[1].isstr

\* a route decorator of the function has a string literal as its first argument
RoutedByLiteral(node) ==
    \E i \in DOMAIN node.decorator_list :
        IsRouteDecorator(node.decorator_list[i]) /\ HasLiteralRoute(node.decorator_list[i])

\* a route decorator of the function has a name, an attribute or a call as its
\* first argument
RoutedByExpression(node) ==
    \E i \in DOMAIN node.decorator_list :
        /\ IsRouteDecorator(node.decorator_list[i])
        /\ Len(node.decorator_list[i].args) > 0
        /\ node.decorator_list[i].args[1].k \in {"Name", "Attribute", "Call"}

\* the files the loop of analyze_index has constructed a visitor for, or failed to
Constructed ==
    {i \in DOMAIN Files : i < file_pos \/ (i = file_pos /\ an_pc = "visit")}

\* C23: a function has an HttpEndpoint context only when one of its decorators is
\* a call of an attribute named route whose first positional argument is a string
\* literal; for a route decorator whose first argument is a name, an attribute or
\* a call the function gets no HttpEndpoint context and context detection
\* completes, so that the file is visited
LiteralRouteOnly ==
    /\ an_pc = "visit" =>
          LET defs == FunctionDefs(CurrentFile.tree) IN
          \A i \in DOMAIN defs :
              "http_endpoint" \in DOMAIN DictGet(function_contexts, defs[i].name, EmptyDict)
                  => RoutedByLiteral(defs[i])
    /\ \A i \in Constructed :
          LET defs == FunctionDefs(Files[i].tree) IN
          (\E j \in DOMAIN defs : RoutedByExpression(defs[j]))
              => /\ ~detect_context(Files[i]).raised
                 /\ Files[i].filename \notin file_errors

-----------------------------------------------------------------------------
(* What the claims say of the current function                             *)

\* the name of the function whose body holds the sink the visitor is at
FunctionAround ==
    LET fn == EnclosingFunction(CurrentFile.tree, Top.path) IN
    IF IsNone(fn) THEN NoFunction ELSE fn.name

\* C24: the current function is set on entering a function definition and restored
\* on leaving it: at a sink call it is the innermost function the call lies in, for
\* a sink of F after a nested definition G it is F, and inside G it is G
CurrentFunctionRestored ==
    AtSink => current_function = FunctionAround

-----------------------------------------------------------------------------
(* What the claims say of os.path.join                                     *)

\* the visitor as trace_source sees it at the sink it is at
SelfAtSink ==
    [file_index |-> CurrentFile, project_index |-> project_index,
     tainted_files |-> tainted_files \cup SaveTaints(TopNode, tainted_files)]

\* the visitor is at a sink whose first argument is a call of os.path.join with
\* at least one argument
AtSinkOfJoin ==
    /\ AtSink
    /\ Len(TopNode.args) > 0
    /\ isinstance(TopNode.args[1], "Call")
    /\ EndsWith(extract_full_func_name(TopNode.args[1].func, CurrentFile.imports),
                "os.path.join")
    /\ Len(TopNode.args[1].args) > 0

\* the call of os.path.join traced as the argument of the sink
JoinTraced == trace_source(SelfAtSink, TopNode.args[1], 0)

\* its arguments traced, one level further down
JoinArgumentsTraced ==
    [i \in DOMAIN TopNode.args[1].args |->
        trace_source(SelfAtSink, TopNode.args[1].args[i], 1)]

\* the words that mark the flow of an argument as not safe
MarkerWords == {"unknown", "input", "tainted"}

Marked(flow) == \E word \in MarkerWords : Contains(flow, word)

\* all arguments of the join are string literals
JoinOfLiterals ==
    \A i \in DOMAIN TopNode.args[1].args :
        isinstance(TopNode.args[1].args[i], "Constant") /\ TopNode.args[1].args[i].isstr

\* C25: a call of os.path.join with at least one argument is traced to the flow
\* 'os.path.join(' + the flows of its arguments joined by ', ' + ')', with risk LOW
\* if no argument's flow contains one of the words unknown, input, tainted and HIGH
\* otherwise; a join over string literals only is LOW whatever the literals hold
JoinClassification ==
    AtSinkOfJoin =>
        LET subs == JoinArgumentsTraced IN
        /\ JoinTraced.flow = "os.path.join(" \o Join(", ", FlowsOf(subs)) \o ")"
        /\ JoinTraced.risk = IF \E i \in DOMAIN subs : Marked(subs[i].flow)
                             THEN "HIGH" ELSE "LOW"
        /\ JoinOfLiterals => JoinTraced.risk = "LOW"

-----------------------------------------------------------------------------
(* What the claims say of a file that cannot be analysed                   *)

\* every sink call of the file has its finding in the list
AllSinksReported(file_index, list) ==
    LET calls == CallsOf(file_index) IN
    \A j \in DOMAIN calls :
        LET name == Callee(file_index, calls[j]) IN
        name \in SINKS =>
            FindingCount(list, file_index.filename, calls[j].lineno, name)
                = CallCount(file_index, calls[j].lineno, name)

\* the files that raised no exception have all their findings returned
OtherFilesAnalysed ==
    \A i \in DOMAIN Files :
        Files[i].filename \notin file_errors => AllSinksReported(Files[i], findings)

\* constructing the visitor of the current file raises
ConstructionRaises ==
    /\ an_pc = "construct"
    /\ file_pos <= Len(Files)
    /\ detect_context(CurrentFile).raised

\* C26: an exception raised while the visitor of a file is constructed is caught by
\* analyze_index: the loop goes on with the next file, the findings gathered so far
\* are kept, and when analyze_index returns every other file has been analysed and
\* its findings are returned
FileIsolation ==
    /\ [][ConstructionRaises =>
             /\ an_pc' = "construct"
             /\ file_pos' = file_pos + 1
             /\ findings' = findings
             /\ file_errors' = file_errors \cup {CurrentFile.filename}]_vars
    /\ [](an_pc = "returned" => OtherFilesAnalysed)

\* the first file raised, and the finding of the file after it was returned
FileIsolationWitness ==
    /\ an_pc = "returned"
    /\ Len(Files) = 2
    /\ file_errors = {Files[1].filename}
    /\ Len(findings) = 1
    /\ findings[1].filename = Files[2].filename

-----------------------------------------------------------------------------
(* What the claims say of match_source                                     *)

\* the name is the source, or the source followed by a dot and more
LeadingComponents(source, name) == name = source \/ StartsWith(name, source \o ".")

\* the name of the call the visitor is at
CallName == Callee(CurrentFile, TopNode)

\* C27: match_source is true of a name exactly when the name itself or a prefix of
\* its leading dot-separated components is in the source set; a name that only
\* begins with the letters of a source, as inputs does with input, does not match
SourcePrefixMatch ==
    Visiting("Call") =>
        (match_source(CallName, SOURCES)
            <=> \E source \in SOURCES : LeadingComponents(source, CallName))

\* the visitor is at the call inputs() it has traced as the argument of a sink: the
\* name matched no source, and the finding names no source
SourcePrefixMatchWitness ==
    /\ Visiting("Call")
    /\ CallName = "inputs"
    /\ ~match_source(CallName, SOURCES)
    /\ Len(visitor_findings) = 1
    /\ visitor_findings[1].initial_source = "unknown source"

\* some argument of the join is traced to risk HIGH
JoinOfHighArgument ==
    \E i \in DOMAIN JoinArgumentsTraced : JoinArgumentsTraced[i].risk = "HIGH"

\* C28: whenever an argument of an os.path.join call is itself traced to risk HIGH
\* (a subscript of request.form, the attribute request.data, a string constant
\* naming a pickle file), the risk of the join is HIGH, never LOW
JoinRiskMonotone ==
    (AtSinkOfJoin /\ JoinOfHighArgument) => JoinTraced.risk = "HIGH"

-----------------------------------------------------------------------------
(* What the claims say of resolve_function_call                            *)

\* the call the visitor is at, resolved in its file
CallResolved == resolve_function_call(TopNode, CurrentFile, project_index)

\* the call is written m(...), m is bound by a plain import m, and the file has no
\* function m
CallOfImportedModule ==
    /\ isinstance(TopNode.func, "Name")
    /\ DictGet(CurrentFile.imports, TopNode.func.id, "") = TopNode.func.id
    /\ TopNode.func.id \notin DOMAIN CurrentFile.functions

\* C29: resolve_function_call is total: for every call it returns a dotted name
\* and a function record or none, and raises nothing; a call m(...) of a name bound
\* by a plain import m that is no function of the file resolves to (m, none)
ResolutionTotal ==
    Visiting("Call") =>
        /\ ~CallResolved.raised
        /\ CallOfImportedModule => CallResolved = Resolved(TopNode.func.id, None)

-----------------------------------------------------------------------------
(* What the claims say of the function map                                 *)

\* the positions of the files map whose file defines the name
DefiningFiles(name) ==
    {i \in DOMAIN project_index.files : name \in DOMAIN project_index.files[i].functions}

\* the short names the files of the files map define
DefinedNames ==
    UNION {DOMAIN project_index.files[i].functions : i \in DOMAIN project_index.files}

\* C30: when index_project has returned, whatever the list of input paths (the same
\* path may be named more than once), for every short name the function map holds
\* exactly one record per file of the files map that defines the name, each the
\* record of that file's own function map
FunctionMapConsistent ==
    ix_pc = "returned" =>
        /\ DOMAIN project_index.function_map = DefinedNames
        /\ \A name \in DOMAIN project_index.function_map :
              LET records == project_index.function_map[name] IN
              /\ Len(records) = Cardinality(DefiningFiles(name))
              /\ \A i \in DefiningFiles(name) :
                    \E k \in DOMAIN records :
                        records[k] = project_index.files[i].functions[name]
              /\ \A k \in DOMAIN records :
                    \E i \in DefiningFiles(name) :
                        records[k] = project_index.files[i].functions[name]

====
